---- MODULE Spec2Model ----
(***************************************************************************)
(* Block-parallel compressor (sequential, BSP and work-stealing drivers    *)
(* over an LZ77 token codec) and its Chase-Lev work-stealing deque.        *)
(*                                                                         *)
(* Goroutines are modelled as processes whose steps are the atomic         *)
(* operations of the Go code (sync/atomic loads, stores and CAS, critical  *)
(* sections under a sync.Mutex); Go atomics are sequentially consistent,   *)
(* so an interleaving of these steps is an execution of the program.       *)
(***************************************************************************)
EXTENDS Integers, Sequences, FiniteSets, TLC

(***************************************************************************)
(* Bounds of the model.                                                    *)
(***************************************************************************)
MaxThreads == 2      \* largest requested worker count of a parallel driver
MaxCap == 2          \* largest capacity requested from NewWSDeque in the deque harness
MaxPush == 3         \* number of PushBottom calls the harness owner makes
NumThieves == 2      \* thieves of the deque harness
MaxBlocks == 2       \* largest number of blocks of an input file
MinBlockSize == 7    \* smallest block size (stands for the 4 KiB of SetBlockSizeBytes)
MaxBlockSize == 8    \* largest block size (stands for the 4 MiB of SetBlockSizeBytes)
MaxPeriod == 2       \* input files repeat a word of length 1 .. MaxPeriod
MaxTokens == 6       \* longest token string handed to lzDecompressTokens on its own
MaxBSPBlocks == 4    \* largest number of blocks of an input file of the BSP drivers alone
MaxPartBlocks == 12  \* largest block count of the partition and the seeding computed on their own
MaxRounds == 4       \* rounds a barrier on its own is used for
MaxEncLen == 9       \* longest input of lzCompressTokens on its own, of every content
MaxLits == 3         \* most literals decoded before the match of an overlapping copy

(***************************************************************************)
(* Bit operations on naturals, as Go computes them on unsigned integers.   *)
(***************************************************************************)
RECURSIVE BitAnd(_, _)
BitAnd(a, b) ==
    IF a = 0 \/ b = 0 THEN 0
    ELSE (IF a % 2 = 1 /\ b % 2 = 1 THEN 1 ELSE 0) + 2 * BitAnd(a \div 2, b \div 2)

RECURSIVE BitOr(_, _)
BitOr(a, b) ==
    IF a = 0 THEN b
    ELSE IF b = 0 THEN a
    ELSE (IF a % 2 = 1 \/ b % 2 = 1 THEN 1 ELSE 0) + 2 * BitOr(a \div 2, b \div 2)

RECURSIVE Pow2(_)
Pow2(k) == IF k = 0 THEN 1 ELSE 2 * Pow2(k - 1)

Shr(x, k) == x \div Pow2(k)

\* nextPow2 is only called with n >= 1 (NewWSDeque raises capacity <= 0 to 1).
\* The shifts by 16 and 32 are the identity on the model's values and are
\* left out to keep the intermediate powers inside 32-bit integers.
nextPow2(n) ==
    LET x0 == n - 1
        x1 == BitOr(x0, Shr(x0, 1))
        x2 == BitOr(x1, Shr(x1, 2))
        x3 == BitOr(x2, Shr(x2, 4))
        x4 == BitOr(x3, Shr(x3, 8))
    IN  x4 + 1

(***************************************************************************)
(* LZ77 token codec (lz.go).  Byte sequences are sequences of 0 .. 255;    *)
(* Go's input[i] is input[i + 1] here.                                     *)
(***************************************************************************)
lzWindowSize == 65535
lzMinMatch == 4
lzMaxMatch == 255

\* the bytes of the multiplier 0x1e35a7bd, least significant first
hashMul == <<189, 167, 53, 30>>

\* h := (b0<<24 ^ b1<<16 ^ b2<<8 ^ b3); h = (h * 0x1e35a7bd) >> (32 - hashBits)
\* in uint32, with hashBits = 14.  The product modulo 2^32 is computed byte
\* by byte with carries; the result is its upper 14 bits.
Hash4(b0, b1, b2, b3) ==
    LET a == <<b3, b2, b1, b0>>
        k == hashMul
        s1 == a[1] * k[1]
        s2 == a[1] * k[2] + a[2] * k[1] + (s1 \div 256)
        s3 == a[1] * k[3] + a[2] * k[2] + a[3] * k[1] + (s2 \div 256)
        s4 == a[1] * k[4] + a[2] * k[3] + a[3] * k[2] + a[4] * k[1] + (s3 \div 256)
    IN  ((s4 % 256) * 256 + (s3 % 256)) \div 4

\* table[h], where a slot never written holds -1
TableGet(table, h) == IF h \in DOMAIN table THEN table[h] ELSE -1

\* variant: a slot keeps the position stored in it first
TablePut_keepFirst(table, h, i) ==
    IF h \in DOMAIN table THEN table
    ELSE [x \in DOMAIN table \cup {h} |-> IF x = h THEN i ELSE table[x]]

\* table[h] = i
TablePut(table, h, i) == [x \in DOMAIN table \cup {h} |-> IF x = h THEN i ELSE table[x]]

\* the largest length the extending loop can reach: its first three conditions
MatchLimit(input, i, candidate) ==
    LET room == IF Len(input) - i < Len(input) - candidate
                THEN Len(input) - i ELSE Len(input) - candidate
    IN  IF room < lzMaxMatch THEN room ELSE lzMaxMatch

\* variant: the match is extended without comparing the bytes
MatchExtend_blind(input, i, candidate, matchLen) ==
    IF matchLen >= MatchLimit(input, i, candidate) THEN matchLen
    ELSE MatchLimit(input, i, candidate)

\* the loop extending a match of length matchLen found at candidate for position i:
\* "for i+matchLen < len(input) && candidate+matchLen < len(input) &&
\*  matchLen < lzMaxMatch && input[candidate+matchLen] == input[i+matchLen]",
\* which ends at the first length where a condition fails
MatchExtend(input, i, candidate, matchLen) ==
    LET limit == MatchLimit(input, i, candidate)
        differ == { m \in matchLen .. limit - 1 :
                      input[candidate + m + 1] # input[i + m + 1] }
    IN  IF matchLen >= limit THEN matchLen
        ELSE IF differ = {} THEN limit
        ELSE CHOOSE m \in differ : \A x \in differ : m <= x

\* variant: a candidate exactly lzWindowSize behind is accepted
InWindow_wide(i, candidate) == i - candidate <= lzWindowSize /\ i - candidate > 0

\* "(i-candidate) < lzWindowSize && i-candidate > 0"
InWindow(i, candidate) == i - candidate < lzWindowSize /\ i - candidate > 0

\* variant: the hash-collision check is skipped
FourBytesEqual_skip(input, candidate, i) == TRUE

\* input[candidate .. candidate+3] == input[i .. i+3]
FourBytesEqual(input, candidate, i) ==
    /\ input[candidate + 1] = input[i + 1]
    /\ input[candidate + 2] = input[i + 2]
    /\ input[candidate + 3] = input[i + 3]
    /\ input[candidate + 4] = input[i + 4]

\* the scanning loop "for i < len(input)" of lzCompressTokens
RECURSIVE LzScan(_, _, _, _)
LzScan(input, i, table, out) ==
    IF i >= Len(input) THEN out
    ELSE IF i + lzMinMatch > Len(input)
    THEN LzScan(input, i + 1, table, out \o <<0, input[i + 1]>>)
    ELSE LET h == Hash4(input[i + 1], input[i + 2], input[i + 3], input[i + 4])
             candidate == TableGet(table, h)
             table2 == TablePut(table, h, i)
         IN  IF /\ candidate # -1
                /\ InWindow(i, candidate)
                /\ FourBytesEqual(input, candidate, i)
             THEN LET matchLen == MatchExtend(input, i, candidate, 4)
                      offset == i - candidate
                  IN  LzScan(input, i + matchLen, table2,
                             out \o <<1, offset % 256, (offset \div 256) % 256, matchLen % 256>>)
             ELSE LzScan(input, i + 1, table2, out \o <<0, input[i + 1]>>)

lzCompressTokens(input) ==
    IF Len(input) = 0 THEN <<>> ELSE LzScan(input, 0, <<>>, <<>>)

\* variant: the match is copied as one block from the output as it was before
\* the copy; a byte not yet written reads as 0
CopyMatch_block(out, start, j, length) ==
    out \o [k \in 1 .. length |-> IF start + k <= Len(out) THEN out[start + k] ELSE 0]

\* for j := 0; j < length; j++ { out = append(out, out[start+j]) }
\* the iterations j .. length-1 of the loop, one append each: the first half of
\* them is run to its end (the output only grows), then the second half on the
\* output of the first
RECURSIVE CopyMatch(_, _, _, _)
CopyMatch(out, start, j, length) ==
    IF j >= length THEN out
    ELSE IF j + 1 = length THEN Append(out, out[start + j + 1])
    ELSE LET mid == j + (length - j) \div 2
             first == CopyMatch(out, start, j, mid)
         IN  IF Len(first) >= Len(out) THEN CopyMatch(first, start, mid, length) ELSE first

LzErr(e) == [err |-> e, out |-> <<>>]

\* variant: a match that starts at the first byte of the output is rejected
InvalidOffset_strict(offset, outLen) == offset <= 0 \/ offset >= outLen

\* "if offset <= 0 || offset > len(out)"
InvalidOffset(offset, outLen) == offset <= 0 \/ offset > outLen

\* the loop "for i < len(tokens)" of lzDecompressTokens and the final size test
RECURSIVE LzDecode(_, _, _, _)
LzDecode(tokens, i, out, expectedSize) ==
    IF i >= Len(tokens)
    THEN IF Len(out) # expectedSize THEN LzErr("size mismatch") ELSE [err |-> "", out |-> out]
    ELSE LET flag == tokens[i + 1]
             i1 == i + 1
         IN  CASE flag = 0 ->
                    IF i1 >= Len(tokens) THEN LzErr("truncated literal")
                    ELSE LzDecode(tokens, i1 + 1, Append(out, tokens[i1 + 1]), expectedSize)
               [] flag = 1 ->
                    IF i1 + 3 > Len(tokens) THEN LzErr("truncated match")
                    ELSE LET offset == tokens[i1 + 1] + 256 * tokens[i1 + 2]
                             length == tokens[i1 + 3]
                         IN  IF InvalidOffset(offset, Len(out))
                             THEN LzErr("invalid match offset")
                             ELSE LzDecode(tokens, i1 + 3,
                                           CopyMatch(out, Len(out) - offset, 0, length),
                                           expectedSize)
               [] OTHER -> LzErr("invalid token flag")

lzDecompressTokens(tokens, expectedSize) ==
    IF Len(tokens) = 0 /\ expectedSize = 0
    THEN [err |-> "", out |-> <<>>]
    ELSE LzDecode(tokens, 0, <<>>, expectedSize)

(***************************************************************************)
(* Block engine: the mode rule of the three compressors and the mode       *)
(* dispatch of the three decompressors.                                    *)
(***************************************************************************)
\* variant: "len(tokens) > len(buf)" in place of ">=": a tie is stored as LZ
UseRaw_tieLz(tokens, buf) == Len(tokens) + 1 > Len(buf) + 1

\* if len(tokens)+1 >= len(buf)+1 { raw } else { LZ }
UseRaw(tokens, buf) == Len(tokens) + 1 >= Len(buf) + 1

EncodeBlock(buf) ==
    LET tokens == lzCompressTokens(buf)
    IN  IF UseRaw(tokens, buf) THEN <<255>> \o buf ELSE <<0>> \o tokens

(***************************************************************************)
(* State.                                                                  *)
(***************************************************************************)
VARIABLES
    top,        \* top[d]: atomic counter of deque d
    bottom,     \* bottom[d]: atomic counter of deque d
    tasks,      \* tasks[d]: circular buffer of deque d, indexed 0 .. mask[d]
    mask,       \* mask[d] = size - 1
    wk,         \* wk[w]: program counter and locals of goroutine w
    pushed,     \* harness: number of PushBottom calls begun (task ids 0 .. pushed-1)
    returned,   \* harness: returned[id] = number of successful pops/steals that returned id
    stolen,     \* harness: number of successful Steal calls
    popSnap,    \* harness: the single task held when the owner's PopBottom was called, else -1
    call,       \* harness: a function called on its own: position, arguments and result
    DefaultBlockSize,   \* the process-global block size
    input,              \* contents of the file being compressed
    drv,                \* the running entry point: its position and locals
    compressedBlocks,   \* compressedBlocks[i + 1]: encoded block i (<<>> while nil)
    blockCompSizes,     \* blockCompSizes[i + 1]
    writes,             \* history: writes[i + 1] = the workers that wrote slot i, in order
    file,               \* contents of the container file
    outBuf,             \* decompression: the output buffer
    firstErr,           \* decompression: the shared first-error cell (Nil while nil)
    errWrites,          \* history: the errors workers tried to record, in order, and whether each was stored
    output,             \* contents of the decompressed output file (NoFile until created)
    result,             \* error returned by the entry point (Nil for nil, Pending while running)
    count               \* Barrier.count

vars == <<top, bottom, tasks, mask, wk, pushed, returned, stolen, popSnap, call,
          DefaultBlockSize, input, drv, compressedBlocks, blockCompSizes, writes,
          file, outBuf, firstErr, errWrites, output, result, count>>

harnessVars == <<pushed, returned, stolen, popSnap, call>>

dequeVars == <<top, bottom, tasks, mask>>

\* the state of the drivers apart from the goroutines and the deques
drvVars == <<DefaultBlockSize, input, drv, compressedBlocks, blockCompSizes, writes,
             file, outBuf, firstErr, errWrites, output, result, count>>

\* what a step inside a deque operation leaves alone besides the deque
otherVars == <<harnessVars, drvVars>>

Procs == 0 .. (IF MaxThreads > NumThieves + 1 THEN MaxThreads ELSE NumThieves + 1) - 1

NoFile == <<-1>>

\* an error value: its kind and the block it names (-1 when it names none)
Err(idx, e) == [idx |-> idx, err |-> e]

Nil == Err(-1, "")

Pending == Err(-1, "-")

\* the driver state in which no entry point is running
DriverIdle(impl) ==
    /\ DefaultBlockSize = 0
    /\ input = <<>>
    /\ drv = [pc |-> "none", op |-> "none", impl |-> impl, cimpl |-> "none", req |-> 0,
              threads |-> 0, numBlocks |-> 0, blockSize |-> 0, originalSize |-> 0, chunkSize |-> 0,
              sizes |-> <<>>, compData |-> <<>>]
    /\ compressedBlocks = <<>>
    /\ blockCompSizes = <<>>
    /\ writes = <<>>
    /\ file = NoFile
    /\ outBuf = <<>>
    /\ firstErr = Nil
    /\ errWrites = <<>>
    /\ output = NoFile
    /\ result = Pending
    /\ count = 0

None == -1

\* no function is being called on its own
NoCall == [pc |-> "none", arg |-> <<>>, ret |-> <<>>]

IdleWk == [pc |-> "idle", b |-> 0, t |-> 0, task |-> 0, ok |-> FALSE, v |-> 0, n |-> 0, ph |-> 0]

\* NewWSDeque(capacity): the buffer is zeroed by make([]int, size).
NewWSDeque(capacity) ==
    LET c == IF capacity <= 0 THEN 1 ELSE capacity
        size == nextPow2(c)
    IN  [tasks |-> [i \in 0 .. size - 1 |-> 0], mask |-> size - 1, top |-> 0, bottom |-> 0]

\* PushBottom run to completion on a deque nobody else touches (the seeding loops)
PushBottomSeq(d, task) ==
    [d EXCEPT !.tasks[BitAnd(d.bottom, d.mask)] = task, !.bottom = d.bottom + 1]

RECURSIVE PushAll(_, _)
PushAll(d, ids) == IF ids = <<>> THEN d ELSE PushAll(PushBottomSeq(d, Head(ids)), Tail(ids))

\* the task ids idx = from, from + step, ... below n, in increasing order
RECURSIVE Stride(_, _, _)
Stride(from, step, n) == IF from >= n THEN <<>> ELSE <<from>> \o Stride(from + step, step, n)

\* variant: the requested capacity is not rounded up
SeedCapacity_floor(numBlocks, threads) == numBlocks \div threads

\* the capacity requested for each deque: (numBlocks + threads - 1) / threads
SeedCapacity(numBlocks, threads) == (numBlocks + threads - 1) \div threads

\* deques[i] = NewWSDeque(...); deques[idx%threads].PushBottom(idx) for idx < numBlocks
SeedDeque(i, numBlocks, threads) ==
    PushAll(NewWSDeque(SeedCapacity(numBlocks, threads)), Stride(i, threads, numBlocks))

(***************************************************************************)
(* Container header (format.go).  Integers are little-endian.              *)
(***************************************************************************)
magic == <<80, 67, 90, 50>>

\* variant: only the low byte of v is kept, the rest is written as zero
RECURSIVE LE_lowByte(_, _)
LE_lowByte(v, k) == IF k = 0 THEN <<>> ELSE <<v % 256>> \o LE_lowByte(0, k - 1)

\* binary.Write(w, binary.LittleEndian, v) for a v of k bytes
RECURSIVE LE(_, _)
LE(v, k) == IF k = 0 THEN <<>> ELSE <<v % 256>> \o LE(v \div 256, k - 1)

RECURSIVE FromLE(_)
FromLE(bs) == IF bs = <<>> THEN 0 ELSE Head(bs) + 256 * FromLE(Tail(bs))

RECURSIVE Concat(_)
Concat(ss) == IF ss = <<>> THEN <<>> ELSE Head(ss) \o Concat(Tail(ss))

RECURSIVE Sum(_)
Sum(ns) == IF ns = <<>> THEN 0 ELSE Head(ns) + Sum(Tail(ns))

Min(a, b) == IF a < b THEN a ELSE b

\* WriteHeader: the bytes written and the error returned
WriteHeader(h) ==
    LET nameBytes == h.Filename
        upToCount == magic \o LE(Len(nameBytes), 2) \o LE(h.OriginalSize, 8) \o nameBytes
                       \o LE(h.BlockSize, 4) \o LE(h.NumBlocks, 8)
    IN  IF Len(nameBytes) > 65535
        THEN [err |-> "filename too long", bytes |-> magic]
        ELSE IF Len(h.BlockCompSizes) # h.NumBlocks
        THEN [err |-> "block count mismatch", bytes |-> upToCount]
        ELSE [err |-> "",
              bytes |-> upToCount
                          \o Concat([i \in 1 .. h.NumBlocks |-> LE(h.BlockCompSizes[i], 8)])]

NoHeader == [Filename |-> <<>>, OriginalSize |-> 0, BlockSize |-> 0, NumBlocks |-> 0,
             BlockCompSizes |-> <<>>]

\* ReadHeader: the header, the error, and the bytes left unread
ReadHeader(r) ==
    LET bad(e) == [err |-> e, h |-> NoHeader, rest |-> <<>>]
        nameLen == FromLE(SubSeq(r, 5, 6))
        p1 == 14 + nameLen          \* bytes up to the end of the filename
        numBlocks == FromLE(SubSeq(r, p1 + 5, p1 + 12))
        p2 == p1 + 12               \* bytes up to the end of num_blocks
    IN  IF Len(r) < 4 THEN bad("short read")
        ELSE IF SubSeq(r, 1, 4) # magic THEN bad("invalid magic")
        ELSE IF Len(r) < 14 THEN bad("short read")
        ELSE IF Len(r) < p2 THEN bad("short read")
        ELSE IF Len(r) < p2 + 8 * numBlocks THEN bad("short read")
        ELSE [err |-> "",
              h |-> [Filename |-> SubSeq(r, 15, p1),
                     OriginalSize |-> FromLE(SubSeq(r, 7, 14)),
                     BlockSize |-> FromLE(SubSeq(r, p1 + 1, p1 + 4)),
                     NumBlocks |-> numBlocks,
                     BlockCompSizes |-> [i \in 1 .. numBlocks |->
                                           FromLE(SubSeq(r, p2 + 8 * (i - 1) + 1, p2 + 8 * i))]],
              rest |-> SubSeq(r, p2 + 8 * numBlocks + 1, Len(r))]

(***************************************************************************)
(* Blocks.                                                                 *)
(***************************************************************************)
\* variant: the partial last block is not counted
NumBlocksOf_floor(originalSize, blockSize) == originalSize \div blockSize

\* numBlocks := (originalSize + blockSize - 1) / blockSize
NumBlocksOf(originalSize, blockSize) == (originalSize + blockSize - 1) \div blockSize

\* blocks[i] = data[s:e] with s = i*blockSize, e = min(s + blockSize, originalSize)
BlockOf(data, blockSize, i) ==
    SubSeq(data, i * blockSize + 1, Min(i * blockSize + blockSize, Len(data)))

\* variant: a reader takes the block size from the process-global
StoredBlockSize_global(h) == DefaultBlockSize

\* "blockSize := int(header.BlockSize)" of the three decompressors
StoredBlockSize(h) == h.BlockSize

\* variant: the last block is expected to be a full block
ExpectedSize_full(idx, numBlocks, blockSize, originalSize) == blockSize

\* exp := blockSize; if idx == numBlocks-1 { exp = originalSize - blockSize*(numBlocks-1) }
ExpectedSize(idx, numBlocks, blockSize, originalSize) ==
    IF idx = numBlocks - 1 THEN originalSize - blockSize * (numBlocks - 1) ELSE blockSize

\* the mode dispatch of the decompressors on one encoded block
DecodeBlock(comp, exp) ==
    IF Len(comp) = 0 THEN [err |-> "empty compressed block", out |-> <<>>]
    ELSE LET mode == comp[1]
             data == Tail(comp)
         IN  CASE mode = 255 ->
                    IF Len(data) # exp
                    THEN [err |-> "raw size mismatch", out |-> <<>>]
                    ELSE [err |-> "", out |-> data]
               [] mode = 0 -> lzDecompressTokens(data, exp)
               [] OTHER -> [err |-> "unknown mode", out |-> <<>>]

\* copy(outBuf[idx*blockSize : idx*blockSize+exp], outBlock)
CopyInto(buf, at, block) ==
    [j \in 1 .. Len(buf) |-> IF j > at /\ j <= at + Len(block) THEN block[j - at] ELSE buf[j]]

\* the name of the input file, stamped into the header
InputName == <<105, 110>>

(***************************************************************************)
(* Deque harness: one WSDeque (deque 0), its owner (goroutine 0) calling   *)
(* PushBottom and PopBottom in any order, and NumThieves thieves calling   *)
(* Steal over and over.  The owner pushes only while the deque holds fewer *)
(* tasks than its capacity, as the drivers do (each deque is sized for the *)
(* tasks seeded on it).  The H*Done operators are the harness receiving    *)
(* the value a deque operation returns.                                    *)
(***************************************************************************)
Owner == 0
Thieves == 1 .. NumThieves

ThiefWk == [IdleWk EXCEPT !.pc = "steal", !.v = Owner]

\* no PushBottom, PopBottom or Steal is in progress
Quiescent ==
    /\ wk[Owner].pc = "idle"
    /\ \A w \in Thieves : wk[w].pc = "steal"

HPushDone(w) ==
    /\ wk' = [wk EXCEPT ![w] = IdleWk]
    /\ UNCHANGED otherVars

HPopDone(w, ok, task) ==
    /\ wk' = [wk EXCEPT ![w] = IdleWk]
    /\ returned' = IF ok THEN [returned EXCEPT ![task] = @ + 1] ELSE returned
    /\ popSnap' = None
    /\ UNCHANGED <<pushed, stolen, call, drvVars>>

HStealDone(w, ok, task) ==
    /\ wk' = [wk EXCEPT ![w] = ThiefWk]
    /\ returned' = IF ok THEN [returned EXCEPT ![task] = @ + 1] ELSE returned
    /\ stolen' = IF ok THEN stolen + 1 ELSE stolen
    /\ UNCHANGED <<pushed, popSnap, call, drvVars>>

(***************************************************************************)
(* The caller's continuation after a deque operation returns.              *)
(***************************************************************************)
\* the work-stealing workers: "task, ok := dq.PopBottom(); if !ok { steal }"
WSPopDone(w, ok, task) ==
    /\ wk' = [wk EXCEPT ![w] = IF ok
                               THEN [IdleWk EXCEPT !.pc = "process", !.task = task]
                               ELSE [IdleWk EXCEPT !.pc = "attempt"]]
    /\ UNCHANGED otherVars

\* "if val, stolen := deques[victimID].Steal(); stolen { task = val; ok = true; break }"
WSStealDone(w, ok, task) ==
    /\ wk' = [wk EXCEPT ![w] = IF ok
                               THEN [IdleWk EXCEPT !.pc = "process", !.task = task]
                               ELSE [IdleWk EXCEPT !.pc = "attempt", !.n = wk[w].n,
                                                   !.ph = wk[w].ph]]
    /\ UNCHANGED otherVars

PushDone(w) == HPushDone(w)

PopDone(w, ok, task) ==
    IF drv.impl = "harness" THEN HPopDone(w, ok, task) ELSE WSPopDone(w, ok, task)

StealDone(w, ok, task) ==
    IF drv.impl = "harness" THEN HStealDone(w, ok, task) ELSE WSStealDone(w, ok, task)

(***************************************************************************)
(* WSDeque.PushBottom, owner w on its own deque w.                         *)
(***************************************************************************)
\* b := d.bottom.Load()
PushLoadBottom(w) ==
    /\ wk[w].pc = "push"
    /\ wk' = [wk EXCEPT ![w].b = bottom[w], ![w].pc = "push_write"]
    /\ UNCHANGED <<dequeVars, otherVars>>

\* d.tasks[b&d.mask] = task
PushWrite(w) ==
    /\ wk[w].pc = "push_write"
    /\ tasks' = [tasks EXCEPT ![w][BitAnd(wk[w].b, mask[w])] = wk[w].task]
    /\ wk' = [wk EXCEPT ![w].pc = "push_store"]
    /\ UNCHANGED <<top, bottom, mask, otherVars>>

\* d.bottom.Store(b + 1)
PushStore(w) ==
    /\ wk[w].pc = "push_store"
    /\ bottom' = [bottom EXCEPT ![w] = wk[w].b + 1]
    /\ PushDone(w)
    /\ UNCHANGED <<top, tasks, mask>>

(***************************************************************************)
(* WSDeque.PopBottom, owner w on its own deque w.                          *)
(***************************************************************************)
\* variant: a deque whose bottom is 1 is taken for empty
PopLoadBottom_early(w) ==
    /\ wk[w].pc = "pop"
    /\ IF bottom[w] <= 1
       THEN PopDone(w, FALSE, 0)
       ELSE /\ wk' = [wk EXCEPT ![w].pc = "pop_store", ![w].b = bottom[w] - 1]
            /\ UNCHANGED otherVars
    /\ UNCHANGED dequeVars

\* b := d.bottom.Load(); if b == 0 { return 0, false }; b = b - 1
PopLoadBottom(w) ==
    /\ wk[w].pc = "pop"
    /\ IF bottom[w] = 0
       THEN PopDone(w, FALSE, 0)
       ELSE /\ wk' = [wk EXCEPT ![w].pc = "pop_store", ![w].b = bottom[w] - 1]
            /\ UNCHANGED otherVars
    /\ UNCHANGED dequeVars

\* variant: the decrement is applied a second time when storing
PopStoreBottom_twice(w) ==
    /\ wk[w].pc = "pop_store"
    /\ bottom' = [bottom EXCEPT ![w] = wk[w].b - 1]
    /\ wk' = [wk EXCEPT ![w].pc = "pop_loadt"]
    /\ UNCHANGED <<top, tasks, mask, otherVars>>

\* d.bottom.Store(b)
PopStoreBottom(w) ==
    /\ wk[w].pc = "pop_store"
    /\ bottom' = [bottom EXCEPT ![w] = wk[w].b]
    /\ wk' = [wk EXCEPT ![w].pc = "pop_loadt"]
    /\ UNCHANGED <<top, tasks, mask, otherVars>>

\* variant: "t < b" in place of "t <= b", the last item is never popped
PopLoadTop_strict(w) ==
    /\ wk[w].pc = "pop_loadt"
    /\ LET t == top[w]
           b == wk[w].b
       IN  IF t < b
           THEN PopDone(w, TRUE, tasks[w][BitAnd(b, mask[w])])
           ELSE /\ wk' = [wk EXCEPT ![w].pc = "pop_restore", ![w].ok = FALSE, ![w].task = 0]
                /\ UNCHANGED otherVars
    /\ UNCHANGED dequeVars

\* t := d.top.Load()
\* if t <= b { task := d.tasks[b&d.mask]; if t == b { CAS ... }; return task, true }
\* (falls through to the restoring store when t > b)
PopLoadTop(w) ==
    /\ wk[w].pc = "pop_loadt"
    /\ LET t == top[w]
           b == wk[w].b
       IN  IF t <= b
           THEN IF t = b
                THEN /\ wk' = [wk EXCEPT ![w].pc = "pop_cas", ![w].t = t,
                                         ![w].task = tasks[w][BitAnd(b, mask[w])]]
                     /\ UNCHANGED otherVars
                ELSE PopDone(w, TRUE, tasks[w][BitAnd(b, mask[w])])
           ELSE /\ wk' = [wk EXCEPT ![w].pc = "pop_restore", ![w].ok = FALSE, ![w].task = 0]
                /\ UNCHANGED otherVars
    /\ UNCHANGED dequeVars

\* variant: the owner keeps the last item even when its CAS fails
PopCas_ignoreFail(w) ==
    /\ wk[w].pc = "pop_cas"
    /\ top' = [top EXCEPT ![w] = IF top[w] = wk[w].t THEN wk[w].t + 1 ELSE top[w]]
    /\ wk' = [wk EXCEPT ![w].pc = "pop_restore", ![w].ok = TRUE, ![w].t = 0]
    /\ UNCHANGED <<bottom, tasks, mask, otherVars>>

\* d.top.CompareAndSwap(t, t+1) on the last item
PopCas(w) ==
    /\ wk[w].pc = "pop_cas"
    /\ IF top[w] = wk[w].t
       THEN /\ top' = [top EXCEPT ![w] = wk[w].t + 1]
            /\ wk' = [wk EXCEPT ![w].pc = "pop_restore", ![w].ok = TRUE, ![w].t = 0]
       ELSE /\ top' = top
            /\ wk' = [wk EXCEPT ![w].pc = "pop_restore", ![w].ok = FALSE, ![w].task = 0,
                                ![w].t = 0]
    /\ UNCHANGED <<bottom, tasks, mask, otherVars>>

\* variant: bottom is left at the decremented value
PopRestoreValue_same(b) == b

\* the value PopBottom stores back into bottom on its three restoring paths
PopRestoreValue(b) == b + 1

\* d.bottom.Store(b + 1); return
PopRestore(w) ==
    /\ wk[w].pc = "pop_restore"
    /\ bottom' = [bottom EXCEPT ![w] = PopRestoreValue(wk[w].b)]
    /\ PopDone(w, wk[w].ok, wk[w].task)
    /\ UNCHANGED <<top, tasks, mask>>

(***************************************************************************)
(* WSDeque.Steal, thief w on the deque wk[w].v.                            *)
(***************************************************************************)
\* t := d.top.Load()
StealLoadTop(w) ==
    /\ wk[w].pc = "steal"
    /\ wk' = [wk EXCEPT ![w].t = top[wk[w].v], ![w].pc = "steal_loadb"]
    /\ UNCHANGED <<dequeVars, otherVars>>

\* b := d.bottom.Load(); if t >= b { return 0, false }
StealLoadBottom(w) ==
    /\ wk[w].pc = "steal_loadb"
    /\ IF wk[w].t >= bottom[wk[w].v]
       THEN StealDone(w, FALSE, 0)
       ELSE /\ wk' = [wk EXCEPT ![w].pc = "steal_read"]
            /\ UNCHANGED otherVars
    /\ UNCHANGED dequeVars

\* task := d.tasks[t&d.mask]
StealRead(w) ==
    /\ wk[w].pc = "steal_read"
    /\ wk' = [wk EXCEPT ![w].task = tasks[wk[w].v][BitAnd(wk[w].t, mask[wk[w].v])],
                        ![w].pc = "steal_cas"]
    /\ UNCHANGED <<dequeVars, otherVars>>

\* variant: the result of the CAS is ignored
StealCas_ignoreFail(w) ==
    /\ wk[w].pc = "steal_cas"
    /\ top' = IF top[wk[w].v] = wk[w].t THEN [top EXCEPT ![wk[w].v] = wk[w].t + 1] ELSE top
    /\ StealDone(w, TRUE, wk[w].task)
    /\ UNCHANGED <<bottom, tasks, mask>>

\* if !d.top.CompareAndSwap(t, t+1) { return 0, false }; return task, true
StealCas(w) ==
    /\ wk[w].pc = "steal_cas"
    /\ IF top[wk[w].v] = wk[w].t
       THEN /\ top' = [top EXCEPT ![wk[w].v] = wk[w].t + 1]
            /\ StealDone(w, TRUE, wk[w].task)
       ELSE /\ top' = top
            /\ StealDone(w, FALSE, 0)
    /\ UNCHANGED <<bottom, tasks, mask>>

DequeStep(w) ==
    \/ PushLoadBottom(w)
    \/ PushWrite(w)
    \/ PushStore(w)
    \/ PopLoadBottom(w)
    \/ PopStoreBottom(w)
    \/ PopLoadTop(w)
    \/ PopCas(w)
    \/ PopRestore(w)
    \/ StealLoadTop(w)
    \/ StealLoadBottom(w)
    \/ StealRead(w)
    \/ StealCas(w)

(***************************************************************************)
(* The harness's calls.                                                    *)
(***************************************************************************)
InitDeque ==
    \E capacity \in 0 .. MaxCap :
        LET d == NewWSDeque(capacity)
        IN  /\ top = [x \in Procs |-> d.top]
            /\ bottom = [x \in Procs |-> d.bottom]
            /\ tasks = [x \in Procs |-> d.tasks]
            /\ mask = [x \in Procs |-> d.mask]
            /\ wk = [w \in Procs |-> IF w \in Thieves THEN ThiefWk ELSE IdleWk]
            /\ pushed = 0
            /\ returned = [i \in 0 .. MaxPush - 1 |-> 0]
            /\ stolen = 0
            /\ popSnap = None
            /\ call = NoCall
            /\ DriverIdle("harness")

\* the owner calls PushBottom with a fresh task id
HOwnerPush ==
    /\ wk[Owner].pc = "idle"
    /\ pushed < MaxPush
    /\ bottom[Owner] - top[Owner] <= mask[Owner]
    /\ wk' = [wk EXCEPT ![Owner].pc = "push", ![Owner].task = pushed]
    /\ pushed' = pushed + 1
    /\ UNCHANGED <<dequeVars, returned, stolen, popSnap, call, drvVars>>

\* the owner calls PopBottom
HOwnerPop ==
    /\ wk[Owner].pc = "idle"
    /\ wk' = [wk EXCEPT ![Owner].pc = "pop"]
    /\ popSnap' = IF bottom[Owner] - top[Owner] = 1
                  THEN tasks[Owner][BitAnd(top[Owner], mask[Owner])]
                  ELSE None
    /\ UNCHANGED <<dequeVars, pushed, returned, stolen, call, drvVars>>

NextDeque ==
    \/ HOwnerPush
    \/ HOwnerPop
    \/ \E w \in {Owner} \cup Thieves : DequeStep(w)

SpecDeque == InitDeque /\ [][NextDeque]_vars

(***************************************************************************)
(* The drivers.  drv.pc is "c_ready" before a compress entry point is      *)
(* called, "c_run" while its workers run, "d_ready" once the container is  *)
(* written, "d_run" while a decompress entry point's workers run and "end" *)
(* when it has returned.                                                   *)
(***************************************************************************)
stealTries == 10
stealTriesDecompress == 6

OffWk == [IdleWk EXCEPT !.pc = "off"]
DoneWk == [IdleWk EXCEPT !.pc = "done"]

Workers == 0 .. drv.threads - 1

NoDeque == NewWSDeque(0)

\* the words the input files repeat: 167 followed by zeros, and a word whose
\* 4-byte keys 0,0,0,0 and 167,0,0,167 fall in the same slot of the hash table
Words ==
    { [i \in 1 .. period |-> IF i = 1 THEN 167 ELSE 0] : period \in 1 .. MaxPeriod }
        \cup {<<0, 0, 0, 0, 167, 0, 0, 167>>}

\* the first len bytes of word repeated
PatternBytes(len, word) == [i \in 1 .. len |-> word[((i - 1) % Len(word)) + 1]]

BlockSizes == MinBlockSize .. MaxBlockSize

InputsFor(blockSize) ==
    {<<>>} \cup { PatternBytes((n - 1) * blockSize + r, word) :
                    n \in 1 .. MaxBlocks, r \in {1, blockSize}, word \in Words }

\* "if threads <= 0 { threads = 1 }"
NormThreads(threads) == IF threads <= 0 THEN 1 ELSE threads

\* variant: the worker count is not limited by the number of blocks
EffectiveThreads_noClamp(threads, numBlocks) == threads

\* "if threads > numBlocks { threads = numBlocks }"
EffectiveThreads(threads, numBlocks) == IF threads > numBlocks THEN numBlocks ELSE threads

EmptyHeader ==
    [Filename |-> InputName, OriginalSize |-> 0, BlockSize |-> DefaultBlockSize,
     NumBlocks |-> 0, BlockCompSizes |-> <<>>]

\* the empty-input path of the three compressors
CompressEmpty(impl) ==
    /\ file' = WriteHeader(EmptyHeader).bytes
    /\ result' = Err(-1, WriteHeader(EmptyHeader).err)
    /\ drv' = [drv EXCEPT !.pc = "d_ready", !.op = "compress", !.impl = impl, !.cimpl = impl,
                          !.threads = 0, !.numBlocks = 0, !.blockSize = 0,
                          !.originalSize = 0, !.chunkSize = 0]
    /\ compressedBlocks' = <<>>
    /\ blockCompSizes' = <<>>
    /\ writes' = <<>>
    /\ UNCHANGED <<dequeVars, wk, harnessVars, DefaultBlockSize, input, outBuf, firstErr,
                   errWrites, output, count>>

\* the header and the blocks written after the join of a parallel compressor,
\* and by SequentialCompressFile after its loop
EmitContainer(originalSize, blockSizeField, sizes, blocks) ==
    LET header == [Filename |-> InputName, OriginalSize |-> originalSize,
                   BlockSize |-> blockSizeField, NumBlocks |-> Len(blocks),
                   BlockCompSizes |-> sizes]
        w == WriteHeader(header)
    IN  [err |-> Err(-1, w.err),
         bytes |-> IF w.err = "" THEN w.bytes \o Concat(blocks) ELSE w.bytes]

(***************************************************************************)
(* WorkStealingCompressFile.                                               *)
(***************************************************************************)
WorkStealingCompressStart(req) ==
    /\ drv.pc = "c_ready"
    /\ IF Len(input) = 0
       THEN CompressEmpty("ws")
       ELSE LET originalSize == Len(input)
                blockSize == DefaultBlockSize
                numBlocks == NumBlocksOf(originalSize, blockSize)
                threads == EffectiveThreads(NormThreads(req), numBlocks)
                dq(i) == IF i < threads THEN SeedDeque(i, numBlocks, threads) ELSE NoDeque
            IN  /\ drv' = [drv EXCEPT !.pc = "c_run", !.op = "compress", !.impl = "ws",
                                      !.cimpl = "ws", !.req = req, !.threads = threads,
                                      !.numBlocks = numBlocks, !.blockSize = blockSize,
                                      !.originalSize = originalSize]
                /\ top' = [i \in Procs |-> dq(i).top]
                /\ bottom' = [i \in Procs |-> dq(i).bottom]
                /\ tasks' = [i \in Procs |-> dq(i).tasks]
                /\ mask' = [i \in Procs |-> dq(i).mask]
                /\ wk' = [w \in Procs |-> IF w < threads THEN [IdleWk EXCEPT !.pc = "pop"]
                                          ELSE OffWk]
                /\ compressedBlocks' = [i \in 1 .. numBlocks |-> <<>>]
                /\ blockCompSizes' = [i \in 1 .. numBlocks |-> 0]
                /\ writes' = [i \in 1 .. numBlocks |-> <<>>]
                /\ UNCHANGED <<harnessVars, DefaultBlockSize, input, file, outBuf, firstErr,
                               errWrites, output, result, count>>

\* the number of steal attempts of one phase
Tries == IF drv.op = "compress" THEN stealTries ELSE stealTriesDecompress

\* one iteration of a stealing loop up to the call of Steal:
\* victimID := rng % threads; if victimID == id { continue }
WSAttempt(w) ==
    /\ drv.impl = "ws"
    /\ wk[w].pc = "attempt"
    /\ wk[w].n < Tries
    /\ \E victimID \in Workers :
          wk' = [wk EXCEPT ![w].n = @ + 1,
                           ![w].v = IF victimID = w THEN 0 ELSE victimID,
                           ![w].pc = IF victimID = w THEN "attempt" ELSE "steal"]
    /\ UNCHANGED <<dequeVars, otherVars>>

\* the first loop ended without a task: runtime.Gosched(), then the second loop
WSYield(w) ==
    /\ drv.impl = "ws"
    /\ wk[w].pc = "attempt"
    /\ wk[w].n = Tries
    /\ wk[w].ph = 0
    /\ wk' = [wk EXCEPT ![w].n = 0, ![w].ph = 1]
    /\ UNCHANGED <<dequeVars, otherVars>>

\* variant: a worker whose second loop failed starts over with the first loop
WSGiveUp_retry(w) ==
    /\ drv.impl = "ws"
    /\ wk[w].pc = "attempt"
    /\ wk[w].n = Tries
    /\ wk[w].ph = 1
    /\ wk' = [wk EXCEPT ![w].n = 0, ![w].ph = 0]
    /\ UNCHANGED <<dequeVars, otherVars>>

\* the second loop ended without a task: "if !ok { return }"
WSGiveUp(w) ==
    /\ drv.impl = "ws"
    /\ wk[w].pc = "attempt"
    /\ wk[w].n = Tries
    /\ wk[w].ph = 1
    /\ wk' = [wk EXCEPT ![w] = DoneWk]
    /\ UNCHANGED <<dequeVars, otherVars>>

\* "Process Task" of WorkStealingCompressFile
WSCompressProcess(w) ==
    /\ drv.impl = "ws"
    /\ drv.op = "compress"
    /\ wk[w].pc = "process"
    /\ LET idx == wk[w].task
           enc == EncodeBlock(BlockOf(input, drv.blockSize, idx))
       IN  /\ compressedBlocks' = [compressedBlocks EXCEPT ![idx + 1] = enc]
           /\ blockCompSizes' = [blockCompSizes EXCEPT ![idx + 1] = Len(enc)]
           /\ writes' = [writes EXCEPT ![idx + 1] = Append(@, w)]
    /\ wk' = [wk EXCEPT ![w] = [IdleWk EXCEPT !.pc = "pop"]]
    /\ UNCHANGED <<dequeVars, harnessVars, DefaultBlockSize, input, drv, file, outBuf,
                   firstErr, errWrites, output, result, count>>

AllJoined == \A w \in Workers : wk[w].pc = "done"

\* the deques and goroutines of a driver that has returned
Released ==
    /\ top' = [i \in Procs |-> NoDeque.top]
    /\ bottom' = [i \in Procs |-> NoDeque.bottom]
    /\ tasks' = [i \in Procs |-> NoDeque.tasks]
    /\ mask' = [i \in Procs |-> NoDeque.mask]
    /\ wk' = [w \in Procs |-> OffWk]

\* wg.Wait() returns; the header and the blocks are written
WorkStealingCompressFinish ==
    /\ drv.pc = "c_run"
    /\ drv.impl = "ws"
    /\ AllJoined
    /\ LET c == EmitContainer(drv.originalSize, DefaultBlockSize, blockCompSizes,
                               compressedBlocks)
       IN  file' = c.bytes /\ result' = c.err
    /\ drv' = [drv EXCEPT !.pc = "d_ready", !.req = 0, !.threads = 0]
    /\ Released
    /\ UNCHANGED <<harnessVars, DefaultBlockSize, input, compressedBlocks, blockCompSizes,
                   writes, outBuf, firstErr, errWrites, output, count>>

\* the steps of a worker between the top of its loop and "Process Task"
WSWorkerStep(w) ==
    \/ PopLoadBottom(w)
    \/ PopStoreBottom(w)
    \/ PopLoadTop(w)
    \/ PopCas(w)
    \/ PopRestore(w)
    \/ WSAttempt(w)
    \/ WSYield(w)
    \/ WSGiveUp(w)
    \/ StealLoadTop(w)
    \/ StealLoadBottom(w)
    \/ StealRead(w)
    \/ StealCas(w)

\* the state before an entry point is called
InitDriver(pc) ==
    /\ top = [i \in Procs |-> NoDeque.top]
    /\ bottom = [i \in Procs |-> NoDeque.bottom]
    /\ tasks = [i \in Procs |-> NoDeque.tasks]
    /\ mask = [i \in Procs |-> NoDeque.mask]
    /\ wk = [w \in Procs |-> OffWk]
    /\ pushed = 0
    /\ returned = <<>>
    /\ stolen = 0
    /\ popSnap = None
    /\ call = NoCall
    /\ drv = [pc |-> pc, op |-> "none", impl |-> "none", cimpl |-> "none", req |-> 0,
              threads |-> 0, numBlocks |-> 0, blockSize |-> 0, originalSize |-> 0, chunkSize |-> 0,
              sizes |-> <<>>, compData |-> <<>>]
    /\ compressedBlocks = <<>>
    /\ blockCompSizes = <<>>
    /\ writes = <<>>
    /\ outBuf = <<>>
    /\ firstErr = Nil
    /\ errWrites = <<>>
    /\ output = NoFile
    /\ result = Pending
    /\ count = 0

ReqThreads == 0 .. MaxThreads

(***************************************************************************)
(* WorkStealingCompressFile alone, on every input file.                    *)
(***************************************************************************)
InitWSC ==
    /\ InitDriver("c_ready")
    /\ DefaultBlockSize \in BlockSizes
    /\ input \in InputsFor(DefaultBlockSize)
    /\ file = NoFile

NextWSC ==
    \/ \E req \in ReqThreads : WorkStealingCompressStart(req)
    \/ \E w \in Workers : WSWorkerStep(w)
    \/ \E w \in Workers : WSCompressProcess(w)
    \/ WorkStealingCompressFinish

SpecWSC == InitWSC /\ [][NextWSC]_vars

(***************************************************************************)
(* What the two parallel decompressors do before they start their workers. *)
(***************************************************************************)
\* offs[idx]: the sum of the sizes of the blocks before idx
Offs(sizes, idx) == Sum(SubSeq(sizes, 1, idx))

\* comp := compData[offs[idx] : offs[idx]+h.BlockCompSizes[idx]]
CompOf(compData, sizes, idx) ==
    SubSeq(compData, Offs(sizes, idx) + 1, Offs(sizes, idx) + sizes[idx + 1])

\* the entry point returns err before any worker is started; created tells
\* whether it has created the output file
ReturnEarly(impl, err, created) ==
    /\ drv' = [drv EXCEPT !.pc = "end", !.op = "decompress", !.impl = impl]
    /\ result' = err
    /\ output' = IF created THEN <<>> ELSE output
    /\ UNCHANGED <<dequeVars, wk, harnessVars, DefaultBlockSize, input, compressedBlocks,
                   blockCompSizes, writes, file, outBuf, firstErr, errWrites, count>>

\* the locals of a parallel decompressor once the header and the payload are read
LoadContainer(impl, h, rest, req, threads) ==
    /\ drv' = [drv EXCEPT !.pc = "d_run", !.op = "decompress", !.impl = impl,
                          !.req = req, !.threads = threads, !.numBlocks = h.NumBlocks,
                          !.blockSize = StoredBlockSize(h), !.originalSize = h.OriginalSize,
                          !.sizes = h.BlockCompSizes,
                          !.compData = SubSeq(rest, 1, Sum(h.BlockCompSizes))]
    /\ outBuf' = [j \in 1 .. h.OriginalSize |-> 0]
    /\ firstErr' = Nil
    /\ errWrites' = <<>>
    /\ writes' = [i \in 1 .. h.NumBlocks |-> <<>>]

\* variant: the cell is assigned without the nil check
SetFirstErr_overwrite(e) ==
    /\ firstErr' = e
    /\ errWrites' = Append(errWrites, [e |-> e, stored |-> TRUE])

\* "mu.Lock(); if firstErr == nil { firstErr = e }; mu.Unlock()"
SetFirstErr(e) ==
    /\ firstErr' = IF firstErr = Nil THEN e ELSE firstErr
    /\ errWrites' = Append(errWrites, [e |-> e, stored |-> firstErr = Nil])

\* variant: the output file is created and written before firstErr is looked at
JoinDecompress_create ==
    /\ drv.pc = "d_run"
    /\ AllJoined
    /\ result' = firstErr
    /\ output' = outBuf
    /\ drv' = [drv EXCEPT !.pc = "end", !.req = 0, !.threads = 0]
    /\ Released
    /\ UNCHANGED <<harnessVars, DefaultBlockSize, input, compressedBlocks, blockCompSizes,
                   writes, file, outBuf, firstErr, errWrites, count>>

\* after wg.Wait(): "if firstErr != nil { return firstErr }", else the output
\* file is created and outBuf written to it
JoinDecompress ==
    /\ drv.pc = "d_run"
    /\ AllJoined
    /\ result' = firstErr
    /\ output' = IF firstErr = Nil THEN outBuf ELSE output
    /\ drv' = [drv EXCEPT !.pc = "end", !.req = 0, !.threads = 0]
    /\ Released
    /\ UNCHANGED <<harnessVars, DefaultBlockSize, input, compressedBlocks, blockCompSizes,
                   writes, file, outBuf, firstErr, errWrites, count>>

(***************************************************************************)
(* WorkStealingDecompressFile.                                             *)
(***************************************************************************)
WorkStealingDecompressStart(req) ==
    /\ drv.pc = "d_ready"
    /\ LET rh == ReadHeader(file)
           h == rh.h
           threads == EffectiveThreads(NormThreads(req), h.NumBlocks)
           dq(i) == IF i < threads THEN SeedDeque(i, h.NumBlocks, threads) ELSE NoDeque
       IN  IF rh.err # ""
           THEN ReturnEarly("ws", Err(-1, rh.err), FALSE)
           ELSE IF h.OriginalSize = 0 \/ h.NumBlocks = 0
           THEN ReturnEarly("ws", Nil, TRUE)
           ELSE IF Len(rh.rest) < Sum(h.BlockCompSizes)
           THEN ReturnEarly("ws", Err(-1, "read compressed payload"), FALSE)
           ELSE /\ LoadContainer("ws", h, rh.rest, req, threads)
                /\ top' = [i \in Procs |-> dq(i).top]
                /\ bottom' = [i \in Procs |-> dq(i).bottom]
                /\ tasks' = [i \in Procs |-> dq(i).tasks]
                /\ mask' = [i \in Procs |-> dq(i).mask]
                /\ wk' = [w \in Procs |-> IF w < threads THEN [IdleWk EXCEPT !.pc = "check"]
                                          ELSE OffWk]
                /\ UNCHANGED <<harnessVars, DefaultBlockSize, input, compressedBlocks,
                               blockCompSizes, file, output, result, count>>

\* the top of the worker loop: "if firstErr != nil { return }"
WSDecompressCheck(w) ==
    /\ drv.impl = "ws"
    /\ wk[w].pc = "check"
    /\ wk' = [wk EXCEPT ![w] = IF firstErr # Nil THEN DoneWk ELSE [IdleWk EXCEPT !.pc = "pop"]]
    /\ UNCHANGED <<dequeVars, otherVars>>

\* the body of the worker loop once it holds a task
WSDecompressProcess(w) ==
    /\ drv.impl = "ws"
    /\ drv.op = "decompress"
    /\ wk[w].pc = "process"
    /\ LET idx == wk[w].task
           exp == ExpectedSize(idx, drv.numBlocks, drv.blockSize, drv.originalSize)
           d == DecodeBlock(CompOf(drv.compData, drv.sizes, idx), exp)
       IN  IF d.err # ""
           THEN /\ SetFirstErr(Err(idx, d.err))
                /\ wk' = [wk EXCEPT ![w] = DoneWk]
                /\ UNCHANGED <<outBuf, writes>>
           ELSE /\ outBuf' = CopyInto(outBuf, idx * drv.blockSize, d.out)
                /\ writes' = [writes EXCEPT ![idx + 1] = Append(@, w)]
                /\ wk' = [wk EXCEPT ![w] = [IdleWk EXCEPT !.pc = "check"]]
                /\ UNCHANGED <<firstErr, errWrites>>
    /\ UNCHANGED <<dequeVars, harnessVars, DefaultBlockSize, input, drv, compressedBlocks,
                   blockCompSizes, file, output, result, count>>

WorkStealingDecompressFinish ==
    /\ drv.impl = "ws"
    /\ JoinDecompress

(***************************************************************************)
(* Barrier.                                                                *)
(***************************************************************************)
\* what a goroutine does when Barrier.Wait returns: a BSP worker returns (the
\* deferred wg.Done), a participant of the barrier on its own goes on to its
\* next round; n counts the calls of Wait that have returned
BarrierReturn(w) ==
    IF drv.impl = "barrier"
    THEN [wk[w] EXCEPT !.pc = IF wk[w].n + 1 < MaxRounds THEN "barrier" ELSE "done",
                       !.n = wk[w].n + 1]
    ELSE DoneWk

\* variant: the last goroutine to arrive leaves the count as it is
BarrierWait_noReset(w) ==
    /\ drv.impl \in {"bsp", "barrier"}
    /\ wk[w].pc = "barrier"
    /\ IF count + 1 = drv.threads
       THEN /\ count' = count + 1
            /\ wk' = [v \in Procs |-> IF v = w THEN BarrierReturn(w)
                                      ELSE IF wk[v].pc = "waiting"
                                      THEN [wk[v] EXCEPT !.pc = "woken"]
                                      ELSE wk[v]]
       ELSE /\ count' = count + 1
            /\ wk' = [wk EXCEPT ![w].pc = "waiting"]
    /\ UNCHANGED <<dequeVars, harnessVars, DefaultBlockSize, input, drv, compressedBlocks,
                   blockCompSizes, writes, file, outBuf, firstErr, errWrites, output, result>>

\* Barrier.Wait up to its cond.Wait: the last goroutine to arrive resets the
\* count, wakes every waiter and returns; any other goroutine waits
BarrierWait(w) ==
    /\ drv.impl \in {"bsp", "barrier"}
    /\ wk[w].pc = "barrier"
    /\ IF count + 1 = drv.threads
       THEN /\ count' = 0
            /\ wk' = [v \in Procs |-> IF v = w THEN BarrierReturn(w)
                                      ELSE IF wk[v].pc = "waiting"
                                      THEN [wk[v] EXCEPT !.pc = "woken"]
                                      ELSE wk[v]]
       ELSE /\ count' = count + 1
            /\ wk' = [wk EXCEPT ![w].pc = "waiting"]
    /\ UNCHANGED <<dequeVars, harnessVars, DefaultBlockSize, input, drv, compressedBlocks,
                   blockCompSizes, writes, file, outBuf, firstErr, errWrites, output, result>>

\* a woken goroutine leaves cond.Wait and Barrier.Wait returns
BarrierWake(w) ==
    /\ drv.impl \in {"bsp", "barrier"}
    /\ wk[w].pc = "woken"
    /\ wk' = [wk EXCEPT ![w] = BarrierReturn(w)]
    /\ UNCHANGED <<dequeVars, otherVars>>

(***************************************************************************)
(* BSPCompressFile and BSPDecompressFile.                                  *)
(***************************************************************************)
\* variant: the chunk size is not rounded up
ChunkSize_floor(numBlocks, threads) == numBlocks \div threads

\* chunkSize := numBlocks / threads; if numBlocks%threads != 0 { chunkSize++ }
ChunkSize(numBlocks, threads) ==
    (numBlocks \div threads) + (IF numBlocks % threads # 0 THEN 1 ELSE 0)

\* the range [start, end) of goroutine id
ChunkStart(id, chunkSize, numBlocks) ==
    IF id * chunkSize >= numBlocks THEN 0 ELSE id * chunkSize

\* variant: a range stops one block early
ChunkEnd_short(id, chunkSize, numBlocks) ==
    IF id * chunkSize >= numBlocks THEN 0
    ELSE Min(id * chunkSize + chunkSize, numBlocks) - 1

ChunkEnd(id, chunkSize, numBlocks) ==
    IF id * chunkSize >= numBlocks THEN 0
    ELSE Min(id * chunkSize + chunkSize, numBlocks)

\* the goroutines of a BSP driver at the top of their loops: idx in task, end in n
BSPWorkers(threads, numBlocks) ==
    [w \in Procs |->
        IF w < threads
        THEN [IdleWk EXCEPT !.pc = "loop",
                            !.task = ChunkStart(w, ChunkSize(numBlocks, threads), numBlocks),
                            !.n = ChunkEnd(w, ChunkSize(numBlocks, threads), numBlocks)]
        ELSE OffWk]

BSPCompressStart(req) ==
    /\ drv.pc = "c_ready"
    /\ IF Len(input) = 0
       THEN CompressEmpty("bsp")
       ELSE LET originalSize == Len(input)
                blockSize == DefaultBlockSize
                numBlocks == NumBlocksOf(originalSize, blockSize)
                threads == EffectiveThreads(NormThreads(req), numBlocks)
            IN  /\ drv' = [drv EXCEPT !.pc = "c_run", !.op = "compress", !.impl = "bsp",
                                      !.cimpl = "bsp", !.req = req, !.threads = threads,
                                      !.numBlocks = numBlocks, !.blockSize = blockSize,
                                      !.originalSize = originalSize,
                                      !.chunkSize = ChunkSize(numBlocks, threads)]
                /\ count' = 0
                /\ wk' = BSPWorkers(threads, numBlocks)
                /\ compressedBlocks' = [i \in 1 .. numBlocks |-> <<>>]
                /\ blockCompSizes' = [i \in 1 .. numBlocks |-> 0]
                /\ writes' = [i \in 1 .. numBlocks |-> <<>>]
                /\ UNCHANGED <<dequeVars, harnessVars, DefaultBlockSize, input, file, outBuf,
                               firstErr, errWrites, output, result>>

\* one iteration of "for idx := start; idx < end; idx++", or the loop's exit
BSPCompressStep(w) ==
    /\ drv.impl = "bsp"
    /\ drv.op = "compress"
    /\ wk[w].pc = "loop"
    /\ IF wk[w].task < wk[w].n
       THEN LET idx == wk[w].task
                enc == EncodeBlock(BlockOf(input, drv.blockSize, idx))
            IN  /\ compressedBlocks' = [compressedBlocks EXCEPT ![idx + 1] = enc]
                /\ blockCompSizes' = [blockCompSizes EXCEPT ![idx + 1] = Len(enc)]
                /\ writes' = [writes EXCEPT ![idx + 1] = Append(@, w)]
                /\ wk' = [wk EXCEPT ![w].task = idx + 1]
       ELSE /\ wk' = [wk EXCEPT ![w] = [IdleWk EXCEPT !.pc = "barrier"]]
            /\ UNCHANGED <<compressedBlocks, blockCompSizes, writes>>
    /\ UNCHANGED <<dequeVars, harnessVars, DefaultBlockSize, input, drv, file, outBuf,
                   firstErr, errWrites, output, result, count>>

BSPCompressFinish ==
    /\ drv.pc = "c_run"
    /\ drv.impl = "bsp"
    /\ AllJoined
    /\ LET c == EmitContainer(drv.originalSize, DefaultBlockSize, blockCompSizes,
                               compressedBlocks)
       IN  file' = c.bytes /\ result' = c.err
    /\ drv' = [drv EXCEPT !.pc = "d_ready", !.req = 0, !.threads = 0, !.chunkSize = 0]
    /\ Released
    /\ UNCHANGED <<harnessVars, DefaultBlockSize, input, compressedBlocks, blockCompSizes,
                   writes, outBuf, firstErr, errWrites, output, count>>

BSPDecompressStart(req) ==
    /\ drv.pc = "d_ready"
    /\ LET rh == ReadHeader(file)
           h == rh.h
           threads == EffectiveThreads(NormThreads(req), h.NumBlocks)
       IN  IF rh.err # ""
           THEN ReturnEarly("bsp", Err(-1, rh.err), FALSE)
           ELSE IF h.OriginalSize = 0 \/ h.NumBlocks = 0
           THEN ReturnEarly("bsp", Nil, TRUE)
           ELSE IF Len(rh.rest) < Sum(h.BlockCompSizes)
           THEN ReturnEarly("bsp", Err(-1, "read compressed payload"), FALSE)
           ELSE /\ LoadContainer("bsp", h, rh.rest, req, threads)
                /\ count' = 0
                /\ wk' = BSPWorkers(threads, h.NumBlocks)
                /\ UNCHANGED <<dequeVars, harnessVars, DefaultBlockSize, input,
                               compressedBlocks, blockCompSizes, file, output, result>>

\* the loop condition and the poll of firstErr: the loop ends (the barrier is next),
\* or the goroutine returns because firstErr is set, or the block is decoded next
BSPDecompressCheck(w) ==
    /\ drv.impl = "bsp"
    /\ drv.op = "decompress"
    /\ wk[w].pc = "loop"
    /\ wk' = [wk EXCEPT ![w] = IF wk[w].task >= wk[w].n THEN [IdleWk EXCEPT !.pc = "barrier"]
                               ELSE IF firstErr # Nil THEN DoneWk
                               ELSE [wk[w] EXCEPT !.pc = "decode"]]
    /\ UNCHANGED <<dequeVars, otherVars>>

\* the rest of the loop body: a failing block records its error and the goroutine
\* returns; a good block is copied into outBuf
BSPDecompressDecode(w) ==
    /\ drv.impl = "bsp"
    /\ wk[w].pc = "decode"
    /\ LET idx == wk[w].task
           exp == ExpectedSize(idx, drv.numBlocks, drv.blockSize, drv.originalSize)
           d == DecodeBlock(CompOf(drv.compData, drv.sizes, idx), exp)
       IN  IF d.err # ""
           THEN /\ SetFirstErr(Err(idx, d.err))
                /\ wk' = [wk EXCEPT ![w] = DoneWk]
                /\ UNCHANGED <<outBuf, writes>>
           ELSE /\ outBuf' = CopyInto(outBuf, idx * drv.blockSize, d.out)
                /\ writes' = [writes EXCEPT ![idx + 1] = Append(@, w)]
                /\ wk' = [wk EXCEPT ![w].pc = "loop", ![w].task = idx + 1]
                /\ UNCHANGED <<firstErr, errWrites>>
    /\ UNCHANGED <<dequeVars, harnessVars, DefaultBlockSize, input, drv, compressedBlocks,
                   blockCompSizes, file, output, result, count>>

BSPDecompressFinish ==
    /\ drv.impl = "bsp"
    /\ JoinDecompress

(***************************************************************************)
(* SequentialCompressFile and SequentialDecompressFile.                    *)
(***************************************************************************)
\* the container SequentialCompressFile writes for a non-empty input
SeqContainer(data, blockSize) ==
    LET numBlocks == NumBlocksOf(Len(data), blockSize)
        blocks == [i \in 1 .. numBlocks |-> EncodeBlock(BlockOf(data, blockSize, i - 1))]
        sizes == [i \in 1 .. numBlocks |-> Len(blocks[i])]
    IN  [blocks |-> blocks, sizes |-> sizes,
         out |-> EmitContainer(Len(data), blockSize, sizes, blocks)]

SequentialCompressFile ==
    /\ drv.pc = "c_ready"
    /\ IF Len(input) = 0
       THEN CompressEmpty("seq")
       ELSE LET blockSize == DefaultBlockSize
                c == SeqContainer(input, blockSize)
            IN  /\ compressedBlocks' = c.blocks
                /\ blockCompSizes' = c.sizes
                /\ writes' = [i \in 1 .. Len(c.blocks) |-> <<0>>]
                /\ file' = c.out.bytes
                /\ result' = c.out.err
                /\ drv' = [drv EXCEPT !.pc = "d_ready", !.op = "compress", !.impl = "seq",
                                      !.cimpl = "seq", !.threads = 0,
                                      !.numBlocks = Len(c.blocks), !.blockSize = blockSize,
                                      !.originalSize = Len(input), !.chunkSize = 0]
                /\ UNCHANGED <<dequeVars, wk, harnessVars, DefaultBlockSize, input, outBuf,
                               firstErr, errWrites, output, count>>

\* the block loop of SequentialDecompressFile from blockIndex on: the error it
\* returns and the bytes written to the output file
RECURSIVE SeqDecodeLoop(_, _, _, _)
SeqDecodeLoop(h, rest, blockIndex, out) ==
    IF blockIndex >= h.NumBlocks THEN [err |-> Nil, out |-> out]
    ELSE LET compSize == h.BlockCompSizes[blockIndex + 1]
             exp == ExpectedSize(blockIndex, h.NumBlocks, StoredBlockSize(h), h.OriginalSize)
             d == DecodeBlock(SubSeq(rest, 1, compSize), exp)
         IN  IF compSize = 0
             THEN [err |-> Err(blockIndex, "invalid compressed size"), out |-> out]
             ELSE IF Len(rest) < compSize
             THEN [err |-> Err(blockIndex, "read compressed block"), out |-> out]
             ELSE IF d.err # ""
             THEN [err |-> Err(blockIndex, d.err), out |-> out]
             ELSE SeqDecodeLoop(h, SubSeq(rest, compSize + 1, Len(rest)), blockIndex + 1,
                                out \o d.out)

SequentialDecompressFile ==
    /\ drv.pc = "d_ready"
    /\ LET rh == ReadHeader(file)
           r == SeqDecodeLoop(rh.h, rh.rest, 0, <<>>)
       IN  IF rh.err # ""
           THEN ReturnEarly("seq", Err(-1, rh.err), FALSE)
           ELSE IF rh.h.OriginalSize = 0 \/ rh.h.NumBlocks = 0
           THEN ReturnEarly("seq", Nil, TRUE)
           ELSE /\ drv' = [drv EXCEPT !.pc = "end", !.op = "decompress", !.impl = "seq"]
                /\ result' = r.err
                /\ output' = r.out
                /\ UNCHANGED <<dequeVars, wk, harnessVars, DefaultBlockSize, input,
                               compressedBlocks, blockCompSizes, writes, file, outBuf,
                               firstErr, errWrites, count>>

(***************************************************************************)
(* Compression by any implementation followed by decompression by any.     *)
(***************************************************************************)
BSPWorkerStep(w) ==
    \/ BSPCompressStep(w)
    \/ BSPDecompressCheck(w)
    \/ BSPDecompressDecode(w)
    \/ BarrierWait(w)
    \/ BarrierWake(w)

NextPipe ==
    \/ SequentialCompressFile
    \/ \E req \in ReqThreads : BSPCompressStart(req)
    \/ \E req \in ReqThreads : WorkStealingCompressStart(req)
    \/ BSPCompressFinish
    \/ WorkStealingCompressFinish
    \/ SequentialDecompressFile
    \/ \E req \in ReqThreads : BSPDecompressStart(req)
    \/ \E req \in ReqThreads : WorkStealingDecompressStart(req)
    \/ BSPDecompressFinish
    \/ WorkStealingDecompressFinish
    \/ \E w \in Workers : BSPWorkerStep(w)
    \/ \E w \in Workers : WSWorkerStep(w)
    \/ \E w \in Workers : WSCompressProcess(w)
    \/ \E w \in Workers : WSDecompressCheck(w)
    \/ \E w \in Workers : WSDecompressProcess(w)

SpecPipe == InitWSC /\ [][NextPipe]_vars

(***************************************************************************)
(* Decompression of containers whose blocks have been damaged.             *)
(***************************************************************************)
SetByte(c, at, v) == [j \in 1 .. Len(c) |-> IF j = at THEN v ELSE c[j]]

\* container c with block k damaged: its mode tag replaced by an unknown one, its
\* mode tag exchanged between raw and LZ, or its entry of the size table zeroed
Tamper(c, k, kind) ==
    LET rh == ReadHeader(c)
        hdrLen == Len(c) - Len(rh.rest)
        tagAt == hdrLen + Offs(rh.h.BlockCompSizes, k) + 1
        sizeAt == hdrLen - 8 * (rh.h.NumBlocks - k)
    IN  CASE kind = "tag" -> SetByte(c, tagAt, 1)
          [] kind = "flip" -> SetByte(c, tagAt, 255 - c[tagAt])
          [] kind = "size0" ->
                [j \in 1 .. Len(c) |-> IF j > sizeAt /\ j <= sizeAt + 8 THEN 0 ELSE c[j]]
          [] OTHER -> c

Kinds == {"ok", "tag", "flip", "size0"}

\* blocks k-1, ..., 0 of c damaged as kinds says
RECURSIVE TamperAll(_, _, _)
TamperAll(c, kinds, k) ==
    IF k = 0 THEN c ELSE TamperAll(Tamper(c, k - 1, kinds[k - 1]), kinds, k - 1)

Tampered(data, blockSize) ==
    LET numBlocks == NumBlocksOf(Len(data), blockSize)
    IN  { TamperAll(SeqContainer(data, blockSize).out.bytes, kinds, numBlocks) :
            kinds \in [0 .. numBlocks - 1 -> Kinds] }

InitTampered ==
    /\ InitDriver("d_ready")
    /\ DefaultBlockSize \in BlockSizes
    /\ input \in InputsFor(DefaultBlockSize) \ {<<>>}
    /\ file \in Tampered(input, DefaultBlockSize)

NextBSPD ==
    \/ \E req \in ReqThreads : BSPDecompressStart(req)
    \/ \E w \in Workers : BSPDecompressCheck(w)
    \/ \E w \in Workers : BSPDecompressDecode(w)
    \/ \E w \in Workers : BarrierWait(w)
    \/ \E w \in Workers : BarrierWake(w)
    \/ BSPDecompressFinish

SpecBSPD == InitTampered /\ [][NextBSPD]_vars

NextWSD ==
    \/ \E req \in ReqThreads : WorkStealingDecompressStart(req)
    \/ \E w \in Workers : WSDecompressCheck(w)
    \/ \E w \in Workers : WSWorkerStep(w)
    \/ \E w \in Workers : WSDecompressProcess(w)
    \/ WorkStealingDecompressFinish

SpecWSD == InitTampered /\ [][NextWSD]_vars

(***************************************************************************)
(* WriteHeader followed by ReadHeader, on headers of every shape.          *)
(***************************************************************************)
\* everything but the function called on its own is idle
InitCall ==
    /\ top = [i \in Procs |-> NoDeque.top]
    /\ bottom = [i \in Procs |-> NoDeque.bottom]
    /\ tasks = [i \in Procs |-> NoDeque.tasks]
    /\ mask = [i \in Procs |-> NoDeque.mask]
    /\ wk = [w \in Procs |-> OffWk]
    /\ pushed = 0
    /\ returned = <<>>
    /\ stolen = 0
    /\ popSnap = None
    /\ DriverIdle("none")

\* the sequences over S of length 0 .. n
SeqsUpTo(S, n) == UNION { [1 .. k -> S] : k \in 0 .. n }

\* the headers handed to WriteHeader: the size table may disagree with NumBlocks
Headers ==
    [Filename : {<<>>, InputName, <<0, 255, 47>>},
     OriginalSize : {0, 1, 70000},
     BlockSize : {0, 4096, 1048576},
     NumBlocks : 0 .. MaxBlocks,
     BlockCompSizes : SeqsUpTo({0, 1, 300}, MaxBlocks)]

\* "valid header": the filename fits 16 bits and the table has NumBlocks entries
ValidHeader(h) == Len(h.Filename) <= 65535 /\ Len(h.BlockCompSizes) = h.NumBlocks

InitHeader ==
    /\ InitCall
    /\ \E h \in Headers : call = [pc |-> "write", arg |-> h, ret |-> <<>>]

\* WriteHeader(out, h) on an empty file
CallWriteHeader ==
    /\ call.pc = "write"
    /\ file' = WriteHeader(call.arg).bytes
    /\ result' = Err(-1, WriteHeader(call.arg).err)
    /\ call' = [call EXCEPT !.pc = "read"]
    /\ UNCHANGED <<dequeVars, wk, pushed, returned, stolen, popSnap, DefaultBlockSize, input,
                   drv, compressedBlocks, blockCompSizes, writes, outBuf, firstErr,
                   errWrites, output, count>>

\* ReadHeader(in) on the file WriteHeader left
CallReadHeader ==
    /\ call.pc = "read"
    /\ call' = [call EXCEPT !.pc = "done", !.ret = ReadHeader(file)]
    /\ UNCHANGED <<dequeVars, wk, pushed, returned, stolen, popSnap, drvVars>>

NextHeader ==
    \/ CallWriteHeader
    \/ CallReadHeader

SpecHeader == InitHeader /\ [][NextHeader]_vars

(***************************************************************************)
(* lzDecompressTokens on arbitrary token strings.                          *)
(***************************************************************************)
\* the bytes token strings are drawn from: the two flags, a byte that is no flag,
\* and a match length
TokenBytes == {0, 1, 2, 5}

\* values of expectedSize: the output lengths the token strings can produce
ExpectedSizes == {0, 1, 2, 6}

InitLz ==
    /\ InitCall
    /\ \E tokens \in SeqsUpTo(TokenBytes, MaxTokens), n \in ExpectedSizes :
          call = [pc |-> "lz", arg |-> [tokens |-> tokens, expectedSize |-> n], ret |-> <<>>]

CallLzDecompressTokens ==
    /\ call.pc = "lz"
    /\ call' = [call EXCEPT !.pc = "lzdone",
                            !.ret = lzDecompressTokens(call.arg.tokens, call.arg.expectedSize)]
    /\ UNCHANGED <<dequeVars, wk, pushed, returned, stolen, popSnap, drvVars>>

NextLz == CallLzDecompressTokens

SpecLz == InitLz /\ [][NextLz]_vars

(***************************************************************************)
(* The three decompressors on containers of the compressors, with the      *)
(* process-global block size set to other values before the call.          *)
(***************************************************************************)
InitReaders ==
    /\ InitDriver("d_ready")
    /\ DefaultBlockSize \in BlockSizes
    /\ input \in InputsFor(DefaultBlockSize)
    /\ file = SeqContainer(input, DefaultBlockSize).out.bytes

\* SetBlockSizeBytes(n), called before a decompressor, or by another goroutine
\* while the workers of a compressor run
SetBlockSizeBytes(n) ==
    /\ drv.pc \in {"d_ready", "c_run"}
    /\ DefaultBlockSize' = IF n < 4 * 1024 THEN 4 * 1024
                           ELSE IF n > 4 * 1024 * 1024 THEN 4 * 1024 * 1024
                           ELSE n
    /\ UNCHANGED <<dequeVars, wk, harnessVars, input, drv, compressedBlocks, blockCompSizes,
                   writes, file, outBuf, firstErr, errWrites, output, result, count>>

\* arguments of SetBlockSizeBytes: below, inside and above its range
BlockSizeArgs == {1, 8 * 1024, 8 * 1024 * 1024}

NextReaders ==
    \/ \E n \in BlockSizeArgs : SetBlockSizeBytes(n)
    \/ SequentialDecompressFile
    \/ NextBSPD
    \/ NextWSD

SpecReaders == InitReaders /\ [][NextReaders]_vars

(***************************************************************************)
(* The BSP drivers alone, with as many workers as there are goroutine      *)
(* slots, and the partition of BSPCompressFile and BSPDecompressFile       *)
(* computed for larger block counts.                                       *)
(***************************************************************************)
BSPReqThreads == 0 .. Cardinality(Procs)

BSPInputs(blockSize) ==
    { PatternBytes((n - 1) * blockSize + r, word) :
        n \in 1 .. MaxBSPBlocks, r \in {1, blockSize}, word \in Words }

InitBSP ==
    /\ InitDriver("c_ready")
    /\ DefaultBlockSize \in BlockSizes
    /\ input \in BSPInputs(DefaultBlockSize)
    /\ file = NoFile

InitPartition ==
    /\ InitCall
    /\ \E numBlocks \in 1 .. MaxPartBlocks : \E threads \in 1 .. numBlocks :
          call = [pc |-> "chunks", arg |-> [numBlocks |-> numBlocks, threads |-> threads],
                  ret |-> <<>>]

\* the ranges [start, end) the fork loop hands to goroutines 0 .. threads - 1
CallPartition ==
    /\ call.pc = "chunks"
    /\ LET numBlocks == call.arg.numBlocks
           threads == call.arg.threads
           chunkSize == ChunkSize(numBlocks, threads)
       IN  call' = [call EXCEPT !.pc = "chunksdone",
                                !.ret = [id \in 0 .. threads - 1 |->
                                            [start |-> ChunkStart(id, chunkSize, numBlocks),
                                             end |-> ChunkEnd(id, chunkSize, numBlocks)]]]
    /\ UNCHANGED <<dequeVars, wk, pushed, returned, stolen, popSnap, drvVars>>

NextBSP ==
    \/ CallPartition
    \/ \E req \in BSPReqThreads : BSPCompressStart(req)
    \/ BSPCompressFinish
    \/ \E req \in BSPReqThreads : BSPDecompressStart(req)
    \/ BSPDecompressFinish
    \/ \E w \in Workers : BSPWorkerStep(w)

InitBSPAll == InitBSP \/ InitPartition

SpecBSP == InitBSPAll /\ [][NextBSP]_vars

(***************************************************************************)
(* The work-stealing drivers under a fair scheduler: compression of every  *)
(* input followed by decompression, and decompression of damaged           *)
(* containers.  A goroutine that can take a step is eventually run, so     *)
(* while a worker or the joining caller can step, a step is eventually     *)
(* taken; nothing is assumed about when an entry point is called.          *)
(***************************************************************************)
InitWSFair == (InitWSC \/ InitTampered) /\ DefaultBlockSize = MinBlockSize

\* the steps of the forked workers and of the caller after wg.Wait()
WSRun ==
    \/ \E w \in Workers : WSWorkerStep(w)
    \/ \E w \in Workers : WSCompressProcess(w)
    \/ \E w \in Workers : WSDecompressCheck(w)
    \/ \E w \in Workers : WSDecompressProcess(w)
    \/ WorkStealingCompressFinish
    \/ WorkStealingDecompressFinish

NextWS ==
    \/ \E req \in ReqThreads : WorkStealingCompressStart(req)
    \/ \E req \in ReqThreads : WorkStealingDecompressStart(req)
    \/ WSRun

SpecWSFair == InitWSFair /\ [][NextWS]_vars /\ WF_vars(WSRun)

(***************************************************************************)
(* The work-stealing drivers together with the seeding of their deques     *)
(* computed for larger block counts.                                       *)
(***************************************************************************)
InitSeeding ==
    /\ InitCall
    /\ \E numBlocks \in 1 .. MaxPartBlocks : \E threads \in 1 .. numBlocks :
          call = [pc |-> "seed", arg |-> [numBlocks |-> numBlocks, threads |-> threads],
                  ret |-> <<>>]

\* the deques after "deques[idx%threads].PushBottom(idx)" for idx < numBlocks
CallSeeding ==
    /\ call.pc = "seed"
    /\ call' = [call EXCEPT !.pc = "seeddone",
                            !.ret = [i \in 0 .. call.arg.threads - 1 |->
                                        SeedDeque(i, call.arg.numBlocks, call.arg.threads)]]
    /\ UNCHANGED <<dequeVars, wk, pushed, returned, stolen, popSnap, drvVars>>

InitWSSeed == InitWSC \/ InitSeeding

NextWSSeed ==
    \/ CallSeeding
    \/ NextWS

SpecWSSeed == InitWSSeed /\ [][NextWSSeed]_vars

(***************************************************************************)
(* A Barrier on its own: NewBarrier(total), then total goroutines that     *)
(* each call Wait MaxRounds times.                                         *)
(***************************************************************************)
InitBarrier ==
    /\ top = [i \in Procs |-> NoDeque.top]
    /\ bottom = [i \in Procs |-> NoDeque.bottom]
    /\ tasks = [i \in Procs |-> NoDeque.tasks]
    /\ mask = [i \in Procs |-> NoDeque.mask]
    /\ wk = [w \in Procs |-> OffWk]
    /\ pushed = 0
    /\ returned = <<>>
    /\ stolen = 0
    /\ popSnap = None
    /\ call = NoCall
    /\ DriverIdle("barrier")

\* b := NewBarrier(total) for total > 0, and the goroutines that will call b.Wait()
NewBarrier(total) ==
    /\ drv.impl = "barrier"
    /\ drv.pc = "none"
    /\ drv' = [drv EXCEPT !.pc = "rounds", !.threads = total]
    /\ count' = 0
    /\ wk' = [w \in Procs |-> IF w < total THEN [IdleWk EXCEPT !.pc = "barrier"] ELSE OffWk]
    /\ UNCHANGED <<dequeVars, harnessVars, DefaultBlockSize, input, compressedBlocks,
                   blockCompSizes, writes, file, outBuf, firstErr, errWrites, output, result>>

NextBarrier ==
    \/ \E total \in 1 .. Cardinality(Procs) : NewBarrier(total)
    \/ \E w \in Workers : BarrierWait(w)
    \/ \E w \in Workers : BarrierWake(w)

SpecBarrier == InitBarrier /\ [][NextBarrier]_vars

(***************************************************************************)
(* lzCompressTokens on its own: every short input over two byte values     *)
(* whose 4-byte groups collide in the hash table, a 1024-byte run of       *)
(* zeros, and inputs whose first four bytes come again after a run of      *)
(* zeros, inside the window and at its edge.                               *)
(***************************************************************************)
ZeroRun(len) == [k \in 1 .. len |-> 0]

\* bytes 1, 2, 3, 4, then zeros, then 1, 2, 3, 4 again at position gap
WindowInput(gap) ==
    [k \in 1 .. gap + 4 |-> IF k <= 4 THEN k ELSE IF k > gap THEN k - gap ELSE 0]

EncInputs ==
    SeqsUpTo({0, 167}, MaxEncLen) \cup {ZeroRun(1024), WindowInput(600)}

\* the scanning loop of lzCompressTokens when it arrives at the second 1, 2, 3, 4
\* of a WindowInput: i is its position and the table slot of these four bytes
\* holds position 0 (the remaining iterations read no other slot)
EncLoopStates ==
    { [input |-> WindowInput(gap), i |-> gap, table |-> (Hash4(1, 2, 3, 4) :> 0)] :
        gap \in {lzWindowSize - 1, lzWindowSize} }

InitEnc ==
    /\ InitCall
    /\ \E a \in { [input |-> data, i |-> 0, table |-> <<>>] : data \in EncInputs }
                   \cup EncLoopStates :
          call = [pc |-> "enc", arg |-> a, ret |-> <<>>]

\* lzCompressTokens(input), or the rest of its loop from the state (i, table)
CallLzCompressTokens ==
    /\ call.pc = "enc"
    /\ call' = [call EXCEPT !.pc = "encdone",
                            !.ret = IF call.arg.i = 0
                                    THEN lzCompressTokens(call.arg.input)
                                    ELSE LzScan(call.arg.input, call.arg.i, call.arg.table,
                                                <<>>)]
    /\ UNCHANGED <<dequeVars, wk, pushed, returned, stolen, popSnap, drvVars>>

NextEnc == CallLzCompressTokens

SpecEnc == InitEnc /\ [][NextEnc]_vars

(***************************************************************************)
(* lzDecompressTokens on a token string of literals followed by one match. *)
(***************************************************************************)
\* the literal tokens of the bytes of data
RECURSIVE LiteralTokens(_)
LiteralTokens(data) ==
    IF data = <<>> THEN <<>> ELSE <<0, Head(data)>> \o LiteralTokens(Tail(data))

\* the length byte of a match token: 0..MaxLits+3 and the largest, 255
CopyLengths == 0 .. MaxLits + 3 \cup {lzMaxMatch}

\* tokens: one to MaxLits literals, then a match (offset, length); expectedSize
\* is the number of literals plus length
InitCopy ==
    /\ InitCall
    /\ \E prefix \in SeqsUpTo({7, 167}, MaxLits) \ {<<>>},
          offset \in 1 .. MaxLits + 1, length \in CopyLengths :
          call = [pc |-> "lz",
                  arg |-> [tokens |-> LiteralTokens(prefix) \o <<1, offset, 0, length>>,
                           expectedSize |-> Len(prefix) + length],
                  ret |-> <<>>]

SpecCopy == InitCopy /\ [][NextLz]_vars

(***************************************************************************)
(* The three decompressors on containers whose blocks have been damaged.   *)
(***************************************************************************)
NextDamaged ==
    \/ SequentialDecompressFile
    \/ NextBSPD
    \/ NextWSD

SpecDamaged == InitTampered /\ [][NextDamaged]_vars

(***************************************************************************)
(* The three compressors while another goroutine calls SetBlockSizeBytes.  *)
(***************************************************************************)
NextResize ==
    \/ \E n \in BlockSizeArgs : SetBlockSizeBytes(n)
    \/ SequentialCompressFile
    \/ \E req \in ReqThreads : BSPCompressStart(req)
    \/ \E w \in Workers : BSPCompressStep(w)
    \/ \E w \in Workers : BarrierWait(w)
    \/ \E w \in Workers : BarrierWake(w)
    \/ BSPCompressFinish
    \/ NextWSC

SpecResize == InitWSC /\ [][NextResize]_vars

(***************************************************************************)
(* Properties of the deque (checked under SpecDeque).                      *)
(***************************************************************************)
PushedIds == 0 .. pushed - 1

\* the task ids the buffer holds at positions [top, bottom) modulo the capacity
Contents(d) == { tasks[d][BitAnd(p, mask[d])] : p \in top[d] .. bottom[d] - 1 }

C5_CountersNeverDecrease ==
    [][top'[Owner] >= top[Owner] /\ bottom'[Owner] >= bottom[Owner]]_vars

\* C5 amended: top never decreases; bottom decreases only in PopBottom's
\* d.bottom.Store(b), and then by exactly one.
C5_TopMonotoneBottomLoweredByPopOnly ==
    [][/\ top'[Owner] >= top[Owner]
       /\ bottom'[Owner] < bottom[Owner] =>
             /\ wk[Owner].pc = "pop_store"
             /\ bottom'[Owner] = bottom[Owner] - 1]_vars

C5_Witness ==
    /\ wk[Owner].pc = "pop_loadt"
    /\ bottom[Owner] = wk[Owner].b
    /\ top[Owner] > 0

C8_SingleElementProgress ==
    (wk[Owner].pc = "pop_restore" /\ popSnap # None) =>
        IF wk[Owner].ok
        THEN wk[Owner].task = popSnap /\ returned[popSnap] = 0
        ELSE returned[popSnap] = 1

C8_Witness ==
    /\ wk[Owner].pc = "pop_restore"
    /\ popSnap # None
    /\ ~wk[Owner].ok
    /\ returned[popSnap] = 1
    /\ \E w \in Thieves : wk[w].pc = "steal_cas" /\ wk[w].task = popSnap

(***************************************************************************)
(* Properties of the drivers.                                              *)
(***************************************************************************)
\* the workers of the running driver have all returned
Joined == drv.pc \in {"c_run", "d_run"} /\ AllJoined

\* C1: in WorkStealingCompressFile no result slot is ever written twice, and once
\* every worker has returned (wg.Wait returns) and when the container has been
\* emitted, every slot compressedBlocks[i] / blockCompSizes[i], 0 <= i < numBlocks,
\* has been written exactly once, by one worker
C1_WorkStealingExactlyOnce ==
    /\ \A i \in DOMAIN writes : Len(writes[i]) <= 1
    /\ (Joined \/ drv.pc = "d_ready") =>
          /\ DOMAIN writes = 1 .. NumBlocksOf(Len(input), DefaultBlockSize)
          /\ \A i \in DOMAIN writes :
                /\ Len(writes[i]) = 1
                /\ compressedBlocks[i] # <<>>
                /\ blockCompSizes[i] = Len(compressedBlocks[i])

\* C1 witness: two workers have returned, every block is written, and one block
\* was written by a worker other than the one whose deque it was seeded into
C1_Witness ==
    /\ Joined
    /\ drv.impl = "ws"
    /\ drv.op = "compress"
    /\ drv.threads = 2
    /\ \E i \in DOMAIN writes : Len(writes[i]) = 1 /\ writes[i][1] # (i - 1) % drv.threads

\* C3: BSPDecompressFile on a container with a failing block always returns: while
\* it has not returned, some goroutine can still take a step (no goroutine is left
\* waiting at the barrier for goroutines that have already returned)
C3_BSPDecompressNeverStuck ==
    drv.pc = "d_run" => ENABLED NextBSPD

\* C4: compressing an input and decompressing the container with the same
\* implementation returns no error and writes exactly the input; and every block b
\* of the input satisfies lzDecompressTokens(lzCompressTokens(b), len(b)) = b
C4_RoundTrip ==
    /\ (drv.pc = "end" /\ drv.cimpl = drv.impl) => (result = Nil /\ output = input)
    /\ drv.pc = "d_ready" =>
          \A i \in 0 .. NumBlocksOf(Len(input), DefaultBlockSize) - 1 :
             LET b == BlockOf(input, DefaultBlockSize, i)
             IN  lzDecompressTokens(lzCompressTokens(b), Len(b)) = [err |-> "", out |-> b]

\* C4 witness: a two-block input whose first block was stored as LZ tokens has been
\* compressed and decompressed by the work-stealing implementation
C4_Witness ==
    /\ drv.pc = "end"
    /\ drv.cimpl = "ws"
    /\ drv.impl = "ws"
    /\ Len(compressedBlocks) = 2
    /\ compressedBlocks[1][1] = 0
    /\ output = input

\* C6: a container written by any of the three compressors is decoded by each of
\* the three decompressors, without error, to the bytes of the input
C6_Interchange ==
    \A c \in {"seq", "bsp", "ws"}, d \in {"seq", "bsp", "ws"} :
        (drv.pc = "end" /\ drv.cimpl = c /\ drv.impl = d) => (output = input /\ result = Nil)

\* C6 witness: a two-block container written by BSPCompressFile has been decoded
\* by WorkStealingDecompressFile
C6_Witness ==
    /\ drv.pc = "end"
    /\ drv.cimpl = "bsp"
    /\ drv.impl = "ws"
    /\ Len(compressedBlocks) = 2
    /\ output = input
    /\ result = Nil

\* C9: every encoded block a compressor has stored is tag 0x00 followed by the
\* token stream when the token stream is shorter than the block, and tag 0xFF
\* followed by the raw bytes otherwise (tie included); it is never longer than
\* 1 + n for a block of n bytes
C9_ModeRule ==
    drv.op = "compress" =>
       \A i \in DOMAIN compressedBlocks :
          LET enc == compressedBlocks[i]
              buf == BlockOf(input, DefaultBlockSize, i - 1)
              tokens == lzCompressTokens(buf)
          IN  enc # <<>> =>
                 /\ (Len(tokens) < Len(buf)) <=> (enc = <<0>> \o tokens)
                 /\ (Len(tokens) >= Len(buf)) <=> (enc = <<255>> \o buf)
                 /\ Len(enc) <= 1 + Len(buf)

\* C9 witness: BSPCompressFile has stored raw a block whose token stream is exactly
\* as long as the block
C9_Witness ==
    /\ drv.pc = "d_ready"
    /\ drv.cimpl = "bsp"
    /\ \E i \in DOMAIN compressedBlocks :
          LET buf == BlockOf(input, DefaultBlockSize, i - 1)
          IN  /\ Len(lzCompressTokens(buf)) = Len(buf)
              /\ compressedBlocks[i] = <<255>> \o buf

\* C10: in WorkStealingDecompressFile only the first attempt to record an error
\* assigns firstErr, the cell keeps that value, and when an error was recorded the
\* entry point returns it, after all workers have returned
C10_FirstErrorWins ==
    /\ \A k \in 1 .. Len(errWrites) : errWrites[k].stored <=> k = 1
    /\ firstErr = IF errWrites = <<>> THEN Nil ELSE errWrites[1].e
    /\ (drv.pc = "end" /\ errWrites # <<>>) =>
          /\ result = errWrites[1].e
          /\ \A w \in Procs : wk[w].pc = "off"

\* C10 witness: two workers failed, and the entry point has returned the error of
\* the first, which names block 1
C10_Witness ==
    /\ drv.pc = "end"
    /\ Len(errWrites) = 2
    /\ result = errWrites[1].e
    /\ result.idx = 1

(***************************************************************************)
(* Properties of the header codec.                                         *)
(***************************************************************************)
\* C11: for every valid header h (filename of at most 65535 bytes, size table of
\* NumBlocks entries), WriteHeader returns nil and ReadHeader on the bytes it wrote
\* returns nil and a header equal to h in Filename, OriginalSize, BlockSize,
\* NumBlocks and BlockCompSizes, leaving no byte unread
C11_HeaderRoundTrip ==
    (call.pc = "done" /\ ValidHeader(call.arg)) =>
        /\ result = Nil
        /\ call.ret.err = ""
        /\ call.ret.h.Filename = call.arg.Filename
        /\ call.ret.h.OriginalSize = call.arg.OriginalSize
        /\ call.ret.h.BlockSize = call.arg.BlockSize
        /\ call.ret.h.NumBlocks = call.arg.NumBlocks
        /\ call.ret.h.BlockCompSizes = call.arg.BlockCompSizes
        /\ call.ret.rest = <<>>

\* C11 witness: a header with a filename, sizes of more than one byte and a
\* two-entry size table has been written and read back
C11_Witness ==
    /\ call.pc = "done"
    /\ ValidHeader(call.arg)
    /\ call.arg.Filename = <<0, 255, 47>>
    /\ call.arg.OriginalSize = 70000
    /\ call.arg.BlockSize = 1048576
    /\ call.arg.BlockCompSizes = <<300, 1>>
    /\ call.ret.h = call.arg

(***************************************************************************)
(* Properties of the container.                                            *)
(***************************************************************************)
\* C12: the container written by SequentialCompressFile, BSPCompressFile or
\* WorkStealingCompressFile has a header whose block count is
\* ceil(OriginalSize / BlockSize), whose size table holds for each i the length
\* of encoded block i (mode tag included) and sums to the payload length, whose
\* payload is the encoded blocks in index order, and OriginalSize = 0 holds
\* exactly when NumBlocks = 0, with an empty size table and an empty payload
C12_ContainerConsistent ==
    drv.pc = "d_ready" =>
        LET r == ReadHeader(file)
            h == r.h
            enc(i) == EncodeBlock(BlockOf(input, h.BlockSize, i))
        IN  /\ result = Nil
            /\ r.err = ""
            /\ h.OriginalSize = Len(input)
            /\ h.BlockSize > 0
            /\ h.NumBlocks * h.BlockSize >= h.OriginalSize
            /\ h.NumBlocks > 0 => (h.NumBlocks - 1) * h.BlockSize < h.OriginalSize
            /\ Len(h.BlockCompSizes) = h.NumBlocks
            /\ \A i \in 0 .. h.NumBlocks - 1 : h.BlockCompSizes[i + 1] = Len(enc(i))
            /\ Sum(h.BlockCompSizes) = Len(r.rest)
            /\ r.rest = Concat([k \in 1 .. h.NumBlocks |-> enc(k - 1)])
            /\ (h.OriginalSize = 0) <=> (h.NumBlocks = 0)
            /\ h.OriginalSize = 0 => (h.BlockCompSizes = <<>> /\ r.rest = <<>>)

\* C12 witness: WorkStealingCompressFile has written a container of two blocks of
\* different encoded lengths, the last one partial
C12_Witness ==
    /\ drv.pc = "d_ready"
    /\ drv.cimpl = "ws"
    /\ ReadHeader(file).h.NumBlocks = 2
    /\ ReadHeader(file).h.OriginalSize % ReadHeader(file).h.BlockSize # 0
    /\ ReadHeader(file).h.BlockCompSizes[1] # ReadHeader(file).h.BlockCompSizes[2]

(***************************************************************************)
(* Properties of the LZ decoder.                                           *)
(***************************************************************************)
\* one token read at position pos (0-based) with the output built so far, in the
\* words of the format: flag 0x00 and a byte, or flag 0x01, a 16-bit offset (low
\* byte first) and a length byte
TokenAt(tokens, pos, out) ==
    LET flag == tokens[pos + 1]
        left == Len(tokens) - pos - 1
    IN  IF flag = 0
        THEN IF left = 0 THEN [fault |-> "a", pos |-> pos, out |-> out]
             ELSE [fault |-> "", pos |-> pos + 2, out |-> out \o <<tokens[pos + 2]>>]
        ELSE IF flag = 1
        THEN IF left < 3 THEN [fault |-> "b", pos |-> pos, out |-> out]
             ELSE LET off == tokens[pos + 2] + 256 * tokens[pos + 3]
                      n == tokens[pos + 4]
                      from == Len(out) - off
                      grown == [k \in 1 .. Len(out) + n |->
                                   IF k <= Len(out) THEN out[k]
                                   ELSE out[from + 1 + ((k - Len(out) - 1) % off)]]
                  IN  IF off = 0 \/ off > Len(out)
                      THEN [fault |-> "c", pos |-> pos, out |-> out]
                      ELSE [fault |-> "", pos |-> pos + 4, out |-> grown]
        ELSE [fault |-> "d", pos |-> pos, out |-> out]

\* the left-to-right scan of a token string: the first fault met, if any, and
\* the output of the tokens before it
RECURSIVE ScanTokens(_, _, _)
ScanTokens(tokens, pos, out) ==
    IF pos >= Len(tokens) THEN [fault |-> "", out |-> out]
    ELSE LET t == TokenAt(tokens, pos, out)
         IN  IF t.fault # "" THEN [fault |-> t.fault, out |-> out]
             ELSE ScanTokens(tokens, t.pos, t.out)

\* C13: lzDecompressTokens(tokens, expectedSize) returns an error and no output
\* exactly when the scan meets (a) a 0x00 flag as last byte, (b) a 0x01 flag
\* followed by fewer than 3 bytes, (c) a match of offset 0 or of offset greater
\* than the current output length, (d) a flag that is neither 0x00 nor 0x01, or
\* (e) ends with an output whose length is not expectedSize; otherwise it returns
\* the decoded bytes
C13_DecoderErrors ==
    call.pc = "lzdone" =>
        LET s == ScanTokens(call.arg.tokens, 0, <<>>)
            e == s.fault = "" /\ Len(s.out) # call.arg.expectedSize
        IN  /\ (call.ret.err # "") <=> (s.fault # "" \/ e)
            /\ call.ret.err # "" => call.ret.out = <<>>
            /\ call.ret.err = "" => call.ret.out = s.out
            /\ s.fault = "a" <=> call.ret.err = "truncated literal"
            /\ s.fault = "b" <=> call.ret.err = "truncated match"
            /\ s.fault = "c" <=> call.ret.err = "invalid match offset"
            /\ s.fault = "d" <=> call.ret.err = "invalid token flag"
            /\ e <=> call.ret.err = "size mismatch"

\* C13 witness: the token string [0x01, 0x00, 0x00, 0x05] has been refused at
\* output length 0 with "invalid match offset"
C13_Witness ==
    /\ call.pc = "lzdone"
    /\ call.arg.tokens = <<1, 0, 0, 5>>
    /\ call.ret = [err |-> "invalid match offset", out |-> <<>>]

(***************************************************************************)
(* Properties of the parallel entry points.                                *)
(***************************************************************************)
\* C14: while the workers of BSPCompressFile, BSPDecompressFile,
\* WorkStealingCompressFile or WorkStealingDecompressFile run (there is then at
\* least one block), the number of goroutines forked, which is also the number of
\* deques and the participant count of the barrier, is
\* min(max(threads, 1), num_blocks) for the threads argument of the call; it is
\* at least 1, and an argument <= 0 gives what the argument 1 gives
C14_EffectiveWorkers ==
    (drv.pc \in {"c_run", "d_run"} /\ drv.impl \in {"bsp", "ws"}) =>
        LET atLeastOne == IF drv.req >= 1 THEN drv.req ELSE 1
            want == IF atLeastOne <= drv.numBlocks THEN atLeastOne ELSE drv.numBlocks
        IN  /\ drv.numBlocks >= 1
            /\ want >= 1
            /\ drv.threads = want
            /\ Cardinality({w \in Procs : wk[w].pc # "off"}) = want
            /\ drv.req <= 0 => drv.threads = 1

\* C14 witness: BSPDecompressFile called with threads = 2 on a one-block
\* container runs one worker
C14_Witness ==
    /\ drv.pc = "d_run"
    /\ drv.impl = "bsp"
    /\ drv.req = 2
    /\ drv.numBlocks = 1
    /\ drv.threads = 1
    /\ Cardinality({w \in Procs : wk[w].pc # "off"}) = 1

\* C15: the three decompressors take every block's expected length and output
\* position from the header's BlockSize, NumBlocks and OriginalSize: whatever
\* value DefaultBlockSize has when a container is decompressed, the workers run
\* with the stored block size and the call returns nil with the bytes that were
\* compressed
C15_ReadersHonourStoredBlockSize ==
    /\ drv.pc = "d_run" => drv.blockSize = ReadHeader(file).h.BlockSize
    /\ drv.pc = "end" => (result = Nil /\ output = input)

\* C15 witness: WorkStealingDecompressFile has decoded a two-block container of
\* block size MinBlockSize while DefaultBlockSize was 4096
C15_Witness ==
    /\ drv.pc = "end"
    /\ drv.impl = "ws"
    /\ DefaultBlockSize = 4096
    /\ ReadHeader(file).h.BlockSize = MinBlockSize
    /\ ReadHeader(file).h.NumBlocks = 2
    /\ output = input

\* C16: in WorkStealingCompressFile and in WorkStealingDecompressFile a worker
\* whose PopBottom returned empty makes up to 10 steal attempts (one that draws
\* its own id is counted), yields once after the 10th, makes up to 10 more, and
\* returns only after the 10th attempt of the second round has failed
C16_TenAttemptsPerPhase ==
    [][\A w \in Procs :
          /\ wk[w].n <= 10
          /\ WSAttempt(w) => wk'[w].n = wk[w].n + 1
          /\ WSYield(w) => (wk[w].ph = 0 /\ wk[w].n = 10)
          /\ WSGiveUp(w) => (wk[w].ph = 1 /\ wk[w].n = 10)]_vars

\* the tasks a work-stealing driver seeds on the deque of worker w
SeededOn(w) == { i \in 0 .. drv.numBlocks - 1 : i % drv.threads = w }

\* task i has been returned by a PopBottom or a Steal: a worker holds it, or its
\* slot is written
Returned(i) ==
    \/ \E v \in Procs : wk[v].pc = "process" /\ wk[v].task = i
    \/ Len(writes[i + 1]) >= 1

\* C17: in the work-stealing drivers, once a worker's own PopBottom has returned
\* empty (it is then stealing, or has terminated after failed steals), its own
\* deque is empty and every task seeded on it has been returned to the owner or
\* to a thief, whatever the steal attempts of the other workers did
C17_OwnDequeLeftEmpty ==
    (drv.impl = "ws" /\ drv.pc \in {"c_run", "d_run"} /\ firstErr = Nil) =>
        \A w \in Workers :
            wk[w].pc \in {"attempt", "steal", "steal_loadb", "steal_read", "steal_cas", "done"} =>
                /\ top[w] = bottom[w]
                /\ \A i \in SeededOn(w) : Returned(i)

\* C17 witness: worker 0's PopBottom has just returned empty while worker 1 holds
\* a task it stole from worker 0's deque, during decompression
C17_Witness ==
    /\ drv.impl = "ws"
    /\ drv.pc = "d_run"
    /\ drv.threads = 2
    /\ wk[0].pc = "attempt"
    /\ wk[0].n = 0
    /\ wk[0].ph = 0
    /\ wk[1].pc = "process"
    /\ wk[1].task \in SeededOn(0)

(***************************************************************************)
(* Properties of the BSP partition.                                        *)
(***************************************************************************)
\* ceil(n / t) for n >= 1 and t >= 1
CeilDiv(n, t) == CHOOSE c \in 1 .. n : c * t >= n /\ (c - 1) * t < n

\* the indices of [w*chunk, min((w+1)*chunk, n)), empty when w*chunk >= n
OwnedBy(w, n, t) ==
    { i \in 0 .. n - 1 : w * CeilDiv(n, t) <= i /\ i < (w + 1) * CeilDiv(n, t) }

\* C18: for N >= 1 blocks and T in 1 .. N workers the ranges the BSP drivers give
\* to workers 0 .. T-1 are [w*chunk, min((w+1)*chunk, N)) with chunk = ceil(N/T),
\* they are pairwise disjoint and cover 0 .. N-1; in BSPCompressFile and
\* BSPDecompressFile no slot or output region is written by two workers, a slot
\* is written only by the worker that owns its index, and when all workers have
\* returned every slot has been written exactly once
C18_BSPExactCover ==
    /\ call.pc = "chunksdone" =>
          LET n == call.arg.numBlocks
              t == call.arg.threads
              range(w) == { i \in 0 .. n - 1 : call.ret[w].start <= i /\ i < call.ret[w].end }
          IN  /\ \A w \in 0 .. t - 1 : range(w) = OwnedBy(w, n, t)
              /\ \A v, w \in 0 .. t - 1 : v # w => range(v) \cap range(w) = {}
              /\ UNION { range(w) : w \in 0 .. t - 1 } = 0 .. n - 1
    /\ (drv.impl = "bsp" /\ drv.pc \in {"c_run", "d_run"}) =>
          /\ DOMAIN writes = 1 .. drv.numBlocks
          /\ \A i \in DOMAIN writes :
                /\ Len(writes[i]) <= 1
                /\ Len(writes[i]) = 1 =>
                      (i - 1) \in OwnedBy(writes[i][1], drv.numBlocks, drv.threads)
          /\ AllJoined => \A i \in DOMAIN writes : Len(writes[i]) = 1

\* C18 witness: the three workers of BSPDecompressFile on a four-block container
\* have returned, the last of them with an empty range, and every block is written
C18_Witness ==
    /\ drv.impl = "bsp"
    /\ drv.pc = "d_run"
    /\ drv.threads = 3
    /\ drv.numBlocks = 4
    /\ AllJoined
    /\ \A i \in DOMAIN writes : Len(writes[i]) = 1

(***************************************************************************)
(* Termination of the work-stealing drivers.                               *)
(***************************************************************************)
\* C19: under a fair scheduler, whenever the workers of WorkStealingCompressFile
\* or WorkStealingDecompressFile have been forked, every one of them eventually
\* returns, the join returns and the entry point returns, whether or not a block
\* fails to decode
C19_WorkStealingTerminates ==
    /\ (drv.impl = "ws" /\ drv.pc \in {"c_run", "d_run"}) ~> Joined
    /\ (drv.impl = "ws" /\ drv.pc \in {"c_run", "d_run"}) ~> (drv.pc \in {"d_ready", "end"})

\* C19 witness: WorkStealingDecompressFile has returned the error of a block that
\* did not decode, after its two workers were joined
C19_Witness ==
    /\ drv.impl = "ws"
    /\ drv.pc = "end"
    /\ drv.numBlocks = 2
    /\ result # Nil
    /\ result # Pending
    /\ Len(errWrites) >= 1

(***************************************************************************)
(* Capacity of the deques of the work-stealing drivers.                    *)
(***************************************************************************)
\* C20: with T deques of requested capacity ceil(num_blocks / T) and block i
\* pushed onto deque i mod T, every deque receives at most ceil(num_blocks / T)
\* pushes, which is at most its capacity C; after seeding each deque holds
\* exactly the blocks pushed onto it, none overwritten, and while the workers run
\* bottom - top <= C on every deque and the buffer still holds every seeded task
C20_NoDequeOverflow ==
    /\ call.pc = "seeddone" =>
          LET n == call.arg.numBlocks
              t == call.arg.threads
          IN  \A i \in 0 .. t - 1 :
                 LET d == call.ret[i]
                     pushes == { idx \in 0 .. n - 1 : idx % t = i }
                 IN  /\ Cardinality(pushes) <= CeilDiv(n, t)
                     /\ CeilDiv(n, t) <= d.mask + 1
                     /\ d.bottom - d.top = Cardinality(pushes)
                     /\ d.bottom - d.top <= d.mask + 1
                     /\ { d.tasks[BitAnd(p, d.mask)] : p \in d.top .. d.bottom - 1 } = pushes
    /\ (drv.impl = "ws" /\ drv.pc \in {"c_run", "d_run"}) =>
          \A w \in Workers :
             /\ bottom[w] - top[w] <= mask[w] + 1
             /\ \A i \in SeededOn(w) : \E k \in 0 .. mask[w] : tasks[w][k] = i

\* C20 witness: three blocks seeded on two deques fill the deque of worker 0 to
\* its capacity
C20_Witness ==
    /\ call.pc = "seeddone"
    /\ call.arg = [numBlocks |-> 3, threads |-> 2]
    /\ call.ret[0].bottom - call.ret[0].top = 2
    /\ call.ret[0].mask + 1 = 2

(***************************************************************************)
(* Properties of the barrier.                                              *)
(***************************************************************************)
\* goroutine w has made its r-th call of Wait
HasCalled(w, r) ==
    \/ wk[w].n >= r
    \/ wk[w].n = r - 1 /\ wk[w].pc \in {"waiting", "woken"}

\* C21: for a Barrier of T participants, no call of Wait of round r has returned
\* unless all T participants have made their r-th call; count is the number of
\* goroutines blocked in the current round, it is below T, and the arrival of
\* the T-th participant sets it to 0 and releases every waiter, in every round
C21_BarrierRounds ==
    (drv.impl = "barrier" /\ drv.pc = "rounds") =>
        /\ \A w \in Workers : \A r \in 1 .. MaxRounds :
              wk[w].n >= r => \A v \in Workers : HasCalled(v, r)
        /\ count = Cardinality({w \in Workers : wk[w].pc = "waiting"})
        /\ count < drv.threads

\* C21 witness: three participants have all returned from the second round of
\* the same barrier and one of them is already waiting in the third
C21_Witness ==
    /\ drv.impl = "barrier"
    /\ drv.threads = 3
    /\ \A w \in Workers : wk[w].n >= 2
    /\ \E w \in Workers : wk[w].n = 2 /\ wk[w].pc = "waiting"
    /\ count = 1

(***************************************************************************)
(* Properties of the LZ encoder.                                           *)
(***************************************************************************)
\* the tokens of a stream written by the encoder from input position at on, each
\* with the input position it was emitted at
RECURSIVE TokensFrom(_, _, _)
TokensFrom(tokens, k, at) ==
    IF k > Len(tokens) THEN <<>>
    ELSE IF tokens[k] = 0
    THEN <<[match |-> FALSE, at |-> at, byte |-> tokens[k + 1], off |-> 0, len |-> 1]>>
             \o TokensFrom(tokens, k + 2, at + 1)
    ELSE <<[match |-> TRUE, at |-> at, byte |-> 0,
            off |-> tokens[k + 1] + 256 * tokens[k + 2], len |-> tokens[k + 3]]>>
             \o TokensFrom(tokens, k + 4, at + tokens[k + 3])

\* the tokens of the call that has returned
Emitted == TokensFrom(call.ret, 1, call.arg.i)

\* the bytes a match token stands for are the bytes off positions earlier
CopiesEarlierBytes(t) ==
    \A k \in 1 .. t.len : call.arg.input[t.at + k] = call.arg.input[t.at - t.off + k]

\* C22 as stated: every match token emitted by lzCompressTokens has
\* offset >= L, its source range [candidate, candidate + L) ends before the
\* current position i
C22_NoSelfOverlap ==
    call.pc = "encdone" =>
        \A n \in 1 .. Len(Emitted) : Emitted[n].match => Emitted[n].off >= Emitted[n].len

\* C22 amended: the source range [candidate, candidate + L) of every match token
\* starts before the current position i and inside the input, ends inside the
\* input, and every byte of the match equals the byte offset positions earlier;
\* the range may reach past i (offset < L), as in a run of one byte
C22_SourceStartsBeforePosition ==
    call.pc = "encdone" =>
        \A n \in 1 .. Len(Emitted) :
            LET t == Emitted[n]
                candidate == t.at - t.off
            IN  t.match =>
                   /\ 0 <= candidate
                   /\ candidate < t.at
                   /\ candidate + t.len <= Len(call.arg.input)
                   /\ CopiesEarlierBytes(t)

\* C22 witness: for five equal bytes the encoder has emitted a match of offset 1
\* and length 4
C22_Witness ==
    /\ call.pc = "encdone"
    /\ call.arg.input = <<167, 167, 167, 167, 167>>
    /\ call.ret = <<0, 167, 1, 1, 0, 4>>

\* C23: every match token emitted at input position i has 4 <= L <= 255 and
\* 1 <= offset <= 65534 with offset <= i, and stands for bytes equal to those
\* offset positions earlier; every literal carries the input byte at its
\* position; each token starts where the previous one ended, so every position
\* is covered by exactly one token and the scan advances until the input ends
C23_TokenValidity ==
    call.pc = "encdone" =>
        /\ \A n \in 1 .. Len(Emitted) :
              LET t == Emitted[n]
              IN  /\ t.match =>
                        /\ 4 <= t.len /\ t.len <= 255
                        /\ 1 <= t.off /\ t.off <= 65534
                        /\ t.off <= t.at
                        /\ CopiesEarlierBytes(t)
                  /\ ~t.match => t.byte = call.arg.input[t.at + 1]
                  /\ t.len >= 1
                  /\ t.at = IF n = 1 THEN call.arg.i ELSE Emitted[n - 1].at + Emitted[n - 1].len
        /\ Len(call.arg.input) > call.arg.i =>
              /\ Len(Emitted) >= 1
              /\ Emitted[Len(Emitted)].at + Emitted[Len(Emitted)].len = Len(call.arg.input)
        /\ Len(call.arg.input) = 0 => call.ret = <<>>

\* C23 witness: four bytes that come again 65534 positions later have been
\* emitted as a match of offset 65534 and length 4
C23_Witness ==
    /\ call.pc = "encdone"
    /\ call.arg.i = 65534
    /\ call.ret = <<1, 254, 255, 4>>

\* C24 as stated: for 1024 zero bytes the encoder emits 4 literals first and
\* then only matches of offset 1 and length 255 until 1020 bytes are matched
C24_FourLiteralsThenOffsetOne ==
    (call.pc = "encdone" /\ call.arg.input = ZeroRun(1024)) =>
        /\ \A n \in 1 .. 4 : ~Emitted[n].match
        /\ \A n \in 5 .. Len(Emitted) :
              Emitted[n].at < 1024 =>
                 (Emitted[n].match /\ Emitted[n].off = 1 /\ Emitted[n].len = 255)
        /\ Emitted[Len(Emitted)].at + Emitted[Len(Emitted)].len = 1024

\* C24 amended: for 1024 zero bytes the encoder emits one literal, a match of
\* offset 1 and length 255, three matches of offset 255 and length 255 (1020
\* bytes matched in all), and three literals for the last three bytes
C24_ZeroRunTokens ==
    (call.pc = "encdone" /\ call.arg.input = ZeroRun(1024)) =>
        call.ret = <<0, 0>> \o <<1, 1, 0, 255>>
                       \o <<1, 255, 0, 255>> \o <<1, 255, 0, 255>> \o <<1, 255, 0, 255>>
                       \o <<0, 0>> \o <<0, 0>> \o <<0, 0>>

\* C24 witness: the 1024 zero bytes have been encoded, into 24 bytes of tokens
C24_Witness ==
    /\ call.pc = "encdone"
    /\ call.arg.input = ZeroRun(1024)
    /\ Len(call.ret) = 24

(***************************************************************************)
(* Properties of the decoder's match copy.                                 *)
(***************************************************************************)
\* the literal bytes at the head of a token string
RECURSIVE LiteralPrefix(_, _)
LiteralPrefix(tokens, k) ==
    IF k + 1 <= Len(tokens) /\ tokens[k] = 0
    THEN <<tokens[k + 1]>> \o LiteralPrefix(tokens, k + 2)
    ELSE <<>>

\* C25: for literals followed by a match token of offset o in 1..len(output)
\* and any length L in 0..255, lzDecompressTokens returns the literals followed
\* by L bytes that repeat the last o bytes periodically: byte k of the copy is
\* the byte o positions before it, also when that byte was appended by the same
\* copy (offset 1 repeats the last byte L times)
C25_OverlappingCopy ==
    call.pc = "lzdone" =>
        LET prefix == LiteralPrefix(call.arg.tokens, 1)
            m == 2 * Len(prefix)
            o == call.arg.tokens[m + 2] + 256 * call.arg.tokens[m + 3]
            L == call.arg.tokens[m + 4]
            base == Len(prefix) - o
        IN  (o >= 1 /\ o <= Len(prefix)) =>
               /\ call.ret.err = ""
               /\ Len(call.ret.out) = Len(prefix) + L
               /\ \A k \in 1 .. Len(prefix) : call.ret.out[k] = prefix[k]
               /\ \A k \in 1 .. L :
                     /\ call.ret.out[Len(prefix) + k] = call.ret.out[Len(prefix) + k - o]
                     /\ call.ret.out[Len(prefix) + k] = prefix[base + ((k - 1) % o) + 1]

\* C25 witness: the literal 167 followed by the match (offset 1, length 5) has
\* been decoded into six bytes 167
C25_Witness ==
    /\ call.pc = "lzdone"
    /\ call.arg.tokens = <<0, 167, 1, 1, 0, 5>>
    /\ call.ret = [err |-> "", out |-> <<167, 167, 167, 167, 167, 167>>]

(***************************************************************************)
(* Properties of the containers the parallel compressors write.            *)
(***************************************************************************)
\* the bytes SequentialCompressFile writes for the input at the block size
SequentialBytes ==
    IF Len(input) = 0 THEN WriteHeader(EmptyHeader).bytes
    ELSE SeqContainer(input, DefaultBlockSize).out.bytes

\* C26: when BSPCompressFile or WorkStealingCompressFile has returned, for any
\* thread count and any interleaving of its workers, the size table, the blocks
\* and the whole file it wrote are those SequentialCompressFile writes for the
\* same input and block size
C26_SameBytesAsSequential ==
    (drv.pc = "d_ready" /\ drv.cimpl \in {"bsp", "ws"}) =>
        /\ file = SequentialBytes
        /\ Len(input) > 0 =>
              /\ blockCompSizes = SeqContainer(input, DefaultBlockSize).sizes
              /\ compressedBlocks = SeqContainer(input, DefaultBlockSize).blocks
        /\ result = Nil

\* C26 witness: WorkStealingCompressFile has written a two-block container whose
\* two blocks were both encoded by worker 1, block 0 after a steal
C26_Witness ==
    /\ drv.pc = "d_ready"
    /\ drv.cimpl = "ws"
    /\ writes = <<<<1>>, <<1>>>>
    /\ file = SequentialBytes

(***************************************************************************)
(* Properties of the output file of the decompressors.                     *)
(***************************************************************************)
\* C27: BSPDecompressFile and WorkStealingDecompressFile leave the output file
\* untouched while their workers run and when a block failed to decode: the
\* file exists only after the join, with firstErr nil, and then holds the whole
\* output buffer. SequentialDecompressFile has created the file whenever it got
\* past the header, and after a failing block the file holds only the blocks
\* decoded before it
C27_OutputOnlyAfterCleanJoin ==
    /\ (drv.op = "decompress" /\ drv.impl \in {"bsp", "ws"}) =>
          /\ drv.pc = "d_run" => output = NoFile
          /\ firstErr # Nil => output = NoFile
          /\ (drv.pc = "end" /\ result # Nil) => output = NoFile
          /\ output # NoFile =>
                (drv.pc = "end" /\ result = Nil /\ firstErr = Nil /\ output = outBuf)
    /\ (drv.op = "decompress" /\ drv.impl = "seq" /\ drv.pc = "end") =>
          /\ output # NoFile
          /\ result # Nil => Len(output) < ReadHeader(file).h.OriginalSize

\* C27 witness: WorkStealingDecompressFile has returned the error of a block of
\* a two-block container after the other block was decoded into the buffer, and
\* the output file does not exist
C27_Witness ==
    /\ drv.pc = "end"
    /\ drv.impl = "ws"
    /\ result # Nil
    /\ \E i \in 1 .. Len(writes) : writes[i] # <<>>
    /\ output = NoFile

(***************************************************************************)
(* Properties of the block size stamped into the header.                   *)
(***************************************************************************)
\* C28: when a compressor has returned for a non-empty input, the block size in
\* the header it wrote is the block size it cut the input with, and the block
\* count in the header is the count for that block size, whatever calls of
\* SetBlockSizeBytes happened while it ran
C28_StampedBlockSizeIsSplitSize ==
    (drv.pc = "d_ready" /\ Len(input) > 0) =>
        /\ ReadHeader(file).h.BlockSize = drv.blockSize
        /\ ReadHeader(file).h.NumBlocks =
              NumBlocksOf(Len(input), ReadHeader(file).h.BlockSize)

====
